---- MODULE Spec2Model ----
(***************************************************************************)
(* Model of the chat-stream client of the minesweeper game                 *)
(* (src/minesweeper/danmuji.py): the frame decoder decode_danmu, the       *)
(* classification of business events into commands, the lock-guarded       *)
(* command list danmu_list and its consumer get_danmu_list, and the        *)
(* session: startup with its join frame, recv_danmu and send_heartbeat;     *)
(* and of the consumer of the commands (src/minesweeper/game.py): Timer    *)
(* and the main loop of Game with process_danmu_list.                      *)
(*                                                                         *)
(* Byte strings are sequences of integers 0..255, text strings are         *)
(* sequences of Unicode code points.                                       *)
(***************************************************************************)
EXTENDS Integers, Sequences, FiniteSets, TLC

(***************************************************************************)
(* Python slicing and integer parsing                                      *)
(***************************************************************************)
Min(a, b) == IF a <= b THEN a ELSE b

\* s[a:b] for 0 <= a, 0 <= b: indices are clamped to the length, never an error
Slice(s, a, b) ==
    LET lo == Min(a, Len(s))
        hi == Min(b, Len(s))
    IN  IF hi <= lo THEN <<>> ELSE SubSeq(s, lo + 1, hi)

\* s[a:]
From(s, a) == Slice(s, a, Len(s))

\* the value of a non-empty byte string read as a big-endian number
RECURSIVE BigEndian(_)
BigEndian(s) ==
    IF s = <<>> THEN 0
    ELSE BigEndian(SubSeq(s, 1, Len(s) - 1)) * 256 + s[Len(s)]

\* int(b.hex(), 16): ValueError on the empty byte string
HexInt(b) ==
    IF b = <<>> THEN [ok |-> FALSE, v |-> 0]
    ELSE [ok |-> TRUE, v |-> BigEndian(b)]

RECURSIVE LittleEndian(_)
LittleEndian(s) ==
    IF s = <<>> THEN 0 ELSE s[1] + 256 * LittleEndian(Tail(s))

(***************************************************************************)
(* zlib.decompress: the zlib container (RFC 1950) with stored deflate      *)
(* blocks (RFC 1951, BTYPE = 00).  A stream that uses a Huffman block is   *)
(* outside this model: the result is flagged "unmodelled".                 *)
(***************************************************************************)
AdlerBase == 65521

\* the sum of f[lo..hi], halving the range
RECURSIVE SumRange(_, _, _)
SumRange(f, lo, hi) ==
    IF lo > hi THEN 0
    ELSE IF lo = hi THEN f[lo]
    ELSE LET mid == (lo + hi) \div 2
         IN  SumRange(f, lo, mid) + SumRange(f, mid + 1, hi)

\* Adler-32 of s: a = 1 + the sum of the bytes, b = the sum of the values a
\* takes after each byte, both modulo 65521
AdlerSums(s) ==
    LET n == Len(s)
        w == [i \in 1..n |-> ((n - i + 1) * s[i]) % AdlerBase]
    IN  <<(1 + SumRange(s, 1, n)) % AdlerBase,
          (n + SumRange(w, 1, n)) % AdlerBase>>

\* the four checksum bytes, most significant first: b * 65536 + a
Adler32Bytes(s) ==
    LET ab == AdlerSums(s)
    IN  <<ab[2] \div 256, ab[2] % 256, ab[1] \div 256, ab[1] % 256>>

ZOk(out)  == [st |-> "ok", out |-> out]
ZError    == [st |-> "error", out |-> <<>>]
ZUnmodelled == [st |-> "unmodelled", out |-> <<>>]

\* the deflate blocks of a stream, from offset pos (0-based) of z
RECURSIVE InflateStored(_, _, _)
InflateStored(z, pos, out) ==
    IF pos >= Len(z) THEN ZError
    ELSE
      LET hdr    == z[pos + 1]
          bfinal == hdr % 2
          btype  == (hdr \div 2) % 4
      IN  IF btype = 3 THEN ZError
          ELSE IF btype # 0 THEN ZUnmodelled
          ELSE IF pos + 5 > Len(z) THEN ZError
          ELSE
            LET len  == LittleEndian(Slice(z, pos + 1, pos + 3))
                nlen == LittleEndian(Slice(z, pos + 3, pos + 5))
                body == Slice(z, pos + 5, pos + 5 + len)
                nxt  == pos + 5 + len
            IN  IF nlen # 65535 - len THEN ZError
                ELSE IF Len(body) < len THEN ZError
                ELSE IF bfinal = 0 THEN InflateStored(z, nxt, out \o body)
                ELSE IF Slice(z, nxt, nxt + 4) = Adler32Bytes(out \o body)
                     THEN ZOk(out \o body)
                     ELSE ZError

ZlibDecompress(z) ==
    IF Len(z) < 2 THEN ZError
    ELSE
      LET cmf == z[1]
          flg == z[2]
      IN  IF cmf % 16 # 8 \/ cmf \div 16 > 7 THEN ZError
          ELSE IF (cmf * 256 + flg) % 31 # 0 THEN ZError
          ELSE IF (flg \div 32) % 2 = 1 THEN ZError
          ELSE InflateStored(z, 2, <<>>)

(***************************************************************************)
(* bytes.decode('utf-8', errors='ignore'): well-formed sequences become    *)
(* code points, every byte that starts no well-formed sequence is dropped  *)
(***************************************************************************)
Utf8Need(b) ==
    IF b < 128 THEN 0
    ELSE IF b >= 194 /\ b <= 223 THEN 1
    ELSE IF b >= 224 /\ b <= 239 THEN 2
    ELSE IF b >= 240 /\ b <= 244 THEN 3
    ELSE -1

\* the range allowed for the byte that follows lead byte b
Utf8SecondLo(b) == IF b = 224 THEN 160 ELSE IF b = 240 THEN 144 ELSE 128
Utf8SecondHi(b) == IF b = 237 THEN 159 ELSE IF b = 244 THEN 143 ELSE 191

Utf8WellFormed(s, i, need) ==
    /\ i + need <= Len(s)
    /\ s[i + 1] >= Utf8SecondLo(s[i]) /\ s[i + 1] <= Utf8SecondHi(s[i])
    /\ \A k \in 2..need : s[i + k] >= 128 /\ s[i + k] <= 191

Utf8CodePoint(s, i, need) ==
    IF need = 1 THEN (s[i] - 192) * 64 + (s[i + 1] - 128)
    ELSE IF need = 2
      THEN (s[i] - 224) * 4096 + (s[i + 1] - 128) * 64 + (s[i + 2] - 128)
    ELSE (s[i] - 240) * 262144 + (s[i + 1] - 128) * 4096
         + (s[i + 2] - 128) * 64 + (s[i + 3] - 128)

\* the code point of the well-formed sequence that starts at i, -1 when
\* none starts there (a byte inside a sequence starts none: 128..191 is no
\* lead byte, so the sequences found this way never overlap)
Utf8At(s, i) ==
    LET need == Utf8Need(s[i])
    IN  IF need = 0 THEN s[i]
        ELSE IF need > 0 /\ Utf8WellFormed(s, i, need)
          THEN Utf8CodePoint(s, i, need)
        ELSE -1

Utf8DecodeIgnore(s) ==
    SelectSeq([i \in 1..Len(s) |-> Utf8At(s, i)], LAMBDA c : c >= 0)

(***************************************************************************)
(* json.loads on a text.  JSON values are tagged records:                  *)
(*   [t |-> "str", v |-> code points]   [t |-> "num", v |-> integer]       *)
(*   [t |-> "arr", v |-> sequence of values]                               *)
(*   [t |-> "obj", v |-> sequence of [k |-> key, v |-> value] members]     *)
(*   [t |-> "lit", v |-> the literal's text]                               *)
(* String escapes, negative numbers, fractions, exponents and the          *)
(* literals NaN and Infinity are outside this model ("unmodelled").        *)
(***************************************************************************)
JStr(v) == [t |-> "str", v |-> v]
JNum(v) == [t |-> "num", v |-> v]
JArr(v) == [t |-> "arr", v |-> v]
JObj(v) == [t |-> "obj", v |-> v]
JLit(v) == [t |-> "lit", v |-> v]

JOk(val, pos)  == [st |-> "ok", val |-> val, pos |-> pos]
JError         == [st |-> "error", val |-> JLit(<<>>), pos |-> 0]
JUnmodelled    == [st |-> "unmodelled", val |-> JLit(<<>>), pos |-> 0]

IsWs(c) == c \in {32, 9, 10, 13}
IsAsciiDigit(c) == c >= 48 /\ c <= 57

RECURSIVE SkipWs(_, _)
SkipWs(s, i) ==
    IF i <= Len(s) /\ IsWs(s[i]) THEN SkipWs(s, i + 1) ELSE i

\* index of the quote that closes a string whose first character is at i;
\* 0: unterminated or control character, -1: an escape
RECURSIVE StringEnd(_, _)
StringEnd(s, i) ==
    IF i > Len(s) THEN 0
    ELSE IF s[i] = 34 THEN i
    ELSE IF s[i] = 92 THEN -1
    ELSE IF s[i] < 32 THEN 0
    ELSE StringEnd(s, i + 1)

ScanString(s, i) ==
    LET e == StringEnd(s, i)
    IN  IF e = 0 THEN JError
        ELSE IF e = -1 THEN JUnmodelled
        ELSE JOk(JStr(Slice(s, i - 1, e - 1)), e + 1)

RECURSIVE DigitsEnd(_, _)
DigitsEnd(s, i) ==
    IF i <= Len(s) /\ IsAsciiDigit(s[i]) THEN DigitsEnd(s, i + 1) ELSE i

RECURSIVE DecimalValue(_)
DecimalValue(ds) ==
    IF ds = <<>> THEN 0
    ELSE DecimalValue(SubSeq(ds, 1, Len(ds) - 1)) * 10 + (ds[Len(ds)] - 48)

ScanNumber(s, i) ==
    LET e == IF s[i] = 48 THEN i + 1 ELSE DigitsEnd(s, i)
    IN  IF e <= Len(s) /\ s[e] \in {46, 69, 101} THEN JUnmodelled
        ELSE JOk(JNum(DecimalValue(Slice(s, i - 1, e - 1))), e)

LitNull  == <<110, 117, 108, 108>>
LitTrue  == <<116, 114, 117, 101>>
LitFalse == <<102, 97, 108, 115, 101>>

RECURSIVE ParseValue(_, _)
RECURSIVE ParseMembers(_, _, _)
RECURSIVE ParseElements(_, _, _)

\* the value that starts at index i (whitespace already skipped)
ParseValue(s, i) ==
    IF i > Len(s) THEN JError
    ELSE
      LET c == s[i]
      IN  IF c = 34 THEN ScanString(s, i + 1)
          ELSE IF c = 123 THEN
            LET j == SkipWs(s, i + 1)
            IN  IF j <= Len(s) /\ s[j] = 125 THEN JOk(JObj(<<>>), j + 1)
                ELSE ParseMembers(s, j, <<>>)
          ELSE IF c = 91 THEN
            LET j == SkipWs(s, i + 1)
            IN  IF j <= Len(s) /\ s[j] = 93 THEN JOk(JArr(<<>>), j + 1)
                ELSE ParseElements(s, j, <<>>)
          ELSE IF IsAsciiDigit(c) THEN ScanNumber(s, i)
          ELSE IF c \in {45, 78, 73} THEN JUnmodelled
          ELSE IF Slice(s, i - 1, i + 3) = LitNull THEN JOk(JLit(LitNull), i + 4)
          ELSE IF Slice(s, i - 1, i + 3) = LitTrue THEN JOk(JLit(LitTrue), i + 4)
          ELSE IF Slice(s, i - 1, i + 4) = LitFalse THEN JOk(JLit(LitFalse), i + 5)
          ELSE JError

\* the members of an object from index i, where a key must start
ParseMembers(s, i, acc) ==
    IF i > Len(s) \/ s[i] # 34 THEN JError
    ELSE
      LET key == ScanString(s, i + 1)
      IN  IF key.st # "ok" THEN key
          ELSE
            LET j == SkipWs(s, key.pos)
            IN  IF j > Len(s) \/ s[j] # 58 THEN JError
                ELSE
                  LET val == ParseValue(s, SkipWs(s, j + 1))
                  IN  IF val.st # "ok" THEN val
                      ELSE
                        LET k    == SkipWs(s, val.pos)
                            acc2 == Append(acc, [k |-> key.val.v, v |-> val.val])
                        IN  IF k > Len(s) THEN JError
                            ELSE IF s[k] = 125 THEN JOk(JObj(acc2), k + 1)
                            ELSE IF s[k] = 44
                              THEN ParseMembers(s, SkipWs(s, k + 1), acc2)
                            ELSE JError

\* the elements of an array from index i, where a value must start
ParseElements(s, i, acc) ==
    LET val == ParseValue(s, i)
    IN  IF val.st # "ok" THEN val
        ELSE
          LET k    == SkipWs(s, val.pos)
              acc2 == Append(acc, val.val)
          IN  IF k > Len(s) THEN JError
              ELSE IF s[k] = 93 THEN JOk(JArr(acc2), k + 1)
              ELSE IF s[k] = 44 THEN ParseElements(s, SkipWs(s, k + 1), acc2)
              ELSE JError

JsonLoads(s) ==
    LET r == ParseValue(s, SkipWs(s, 1))
    IN  IF r.st # "ok" THEN r
        ELSE IF SkipWs(s, r.pos) <= Len(s) THEN JError
        ELSE r

(***************************************************************************)
(* Text literals of danmuji.py, as code points                             *)
(***************************************************************************)
KeyCmd      == <<99, 109, 100>>                              \* 'cmd'
KeyData     == <<100, 97, 116, 97>>                          \* 'data'
KeyInfo     == <<105, 110, 102, 111>>                        \* 'info'
KeyUname    == <<117, 110, 97, 109, 101>>                    \* 'uname'
KeyNum      == <<110, 117, 109>>                             \* 'num'
KeyGiftName == <<103, 105, 102, 116, 78, 97, 109, 101>>      \* 'giftName'
KeyUsername == <<117, 115, 101, 114, 110, 97, 109, 101>>     \* 'username'
CmdSendGift == <<83, 69, 78, 68, 95, 71, 73, 70, 84>>        \* 'SEND_GIFT'
CmdGuardBuy == <<71, 85, 65, 82, 68, 95, 66, 85, 89>>        \* 'GUARD_BUY'
CmdDanmuMsg == <<68, 65, 78, 77, 85, 95, 77, 83, 71>>        \* 'DANMU_MSG'
TrackedGift == <<21507, 29916>>                              \* the gift name
WordEasy    == <<101, 97, 115, 121>>                         \* 'easy'
WordNormal  == <<110, 111, 114, 109, 97, 108>>               \* 'normal'
WordEASY    == <<69, 65, 83, 89>>                            \* 'EASY'
WordNORMAL  == <<78, 79, 82, 77, 65, 76>>                    \* 'NORMAL'
Bang        == 33                                            \* '!'
WideBang    == 65281                                         \* full-width '!'

(***************************************************************************)
(* Subscripting a JSON value: jd[key] with a text key or a position        *)
(***************************************************************************)
SubOk(val) == [ok |-> TRUE, val |-> val]
SubFail    == [ok |-> FALSE, val |-> JLit(<<>>)]

\* a lookup that yields null for an absent key, as dict.get does
GetKeyOrNull(v, key) ==
    IF v.t # "obj" THEN SubFail
    ELSE LET hits == {i \in 1..Len(v.v) : v.v[i].k = key}
         IN  IF hits = {} THEN SubOk(JLit(LitNull))
             ELSE SubOk(v.v[CHOOSE i \in hits : \A j \in hits : j <= i].v)

\* v[key] for a text key: KeyError when absent, TypeError on a non-object;
\* of two members with one key the later one counts
GetKey(v, key) ==
    IF v.t # "obj" THEN SubFail
    ELSE LET hits == {i \in 1..Len(v.v) : v.v[i].k = key}
         IN  IF hits = {} THEN SubFail
             ELSE SubOk(v.v[CHOOSE i \in hits : \A j \in hits : j <= i].v)

\* v[n] for a position n >= 0: IndexError out of range, a one-character
\* text on a text, TypeError on anything that is not an array or a text
GetIndex(v, n) ==
    IF v.t = "arr" THEN (IF n < Len(v.v) THEN SubOk(v.v[n + 1]) ELSE SubFail)
    ELSE IF v.t = "str"
      THEN (IF n < Len(v.v) THEN SubOk(JStr(<<v.v[n + 1]>>)) ELSE SubFail)
    ELSE SubFail

IsText(v, text) == v.t = "str" /\ v.v = text

(***************************************************************************)
(* The three patterns tried on a chat text by re.match (anchored at the    *)
(* start of the text, not at its end).  \d is the ASCII digits and the     *)
(* full-width digits; the other Unicode decimal digits are not modelled.   *)
(***************************************************************************)
IsLetter(c) == (c >= 97 /\ c <= 122) \/ (c >= 65 /\ c <= 90)
IsDigit(c)  == (c >= 48 /\ c <= 57) \/ (c >= 65296 /\ c <= 65305)
DigitValue(c) == IF c <= 57 THEN c - 48 ELSE c - 65296

\* str.lower() and str.upper() on one ASCII-or-other code point
Lower(c) == IF c >= 65 /\ c <= 90 THEN c + 32 ELSE c
Upper(c) == IF c >= 97 /\ c <= 122 THEN c - 32 ELSE c
UpperText(s) == [i \in 1..Len(s) |-> Upper(s[i])]

\* int() of a text of digits
RECURSIVE IntOfDigits(_)
IntOfDigits(ds) ==
    IF ds = <<>> THEN 0
    ELSE IntOfDigits(SubSeq(ds, 1, Len(ds) - 1)) * 10 + DigitValue(ds[Len(ds)])

\* the lengths m?m? can take at the start of s, in backtracking order
MarkerLengths(s, m) ==
    (IF Len(s) >= 2 /\ s[1] = m /\ s[2] = m THEN <<2>> ELSE <<>>)
    \o (IF Len(s) >= 1 /\ s[1] = m THEN <<1, 1>> ELSE <<>>)
    \o <<0>>

\* the lengths group 1, (!?!?|<wide>?<wide>?), can take, in backtracking order
Group1Lengths(s) == MarkerLengths(s, Bang) \o MarkerLengths(s, WideBang)

NoMatch == [ok |-> FALSE, g1 |-> <<>>, letter |-> 0, digits |-> <<>>]

\* ([a-z]|[A-Z])(\d\d|\d) after the first k characters
LetterDigitsAt(s, k) ==
    IF Len(s) >= k + 2 /\ IsLetter(s[k + 1]) /\ IsDigit(s[k + 2])
    THEN [ok |-> TRUE, g1 |-> SubSeq(s, 1, k), letter |-> s[k + 1],
          digits |-> IF Len(s) >= k + 3 /\ IsDigit(s[k + 3])
                     THEN SubSeq(s, k + 2, k + 3) ELSE SubSeq(s, k + 2, k + 2)]
    ELSE NoMatch

\* (\d\d|\d)([a-z]|[A-Z]) after the first k characters
DigitsLetterAt(s, k) ==
    IF Len(s) >= k + 3 /\ IsDigit(s[k + 1]) /\ IsDigit(s[k + 2])
       /\ IsLetter(s[k + 3])
    THEN [ok |-> TRUE, g1 |-> SubSeq(s, 1, k), letter |-> s[k + 3],
          digits |-> SubSeq(s, k + 1, k + 2)]
    ELSE IF Len(s) >= k + 2 /\ IsDigit(s[k + 1]) /\ IsLetter(s[k + 2])
    THEN [ok |-> TRUE, g1 |-> SubSeq(s, 1, k), letter |-> s[k + 2],
          digits |-> SubSeq(s, k + 1, k + 1)]
    ELSE NoMatch

\* re.match("(!?!?|<wide>?<wide>?)([a-z]|[A-Z])(\d\d|\d)", s)
MatchLetterDigits(s) ==
    LET ks   == Group1Lengths(s)
        hits == {i \in 1..Len(ks) : LetterDigitsAt(s, ks[i]).ok}
    IN  IF hits = {} THEN NoMatch
        ELSE LetterDigitsAt(s, ks[CHOOSE i \in hits : \A j \in hits : i <= j])

\* re.match("(!?!?|<wide>?<wide>?)(\d\d|\d)([a-z]|[A-Z])", s)
MatchDigitsLetter(s) ==
    LET ks   == Group1Lengths(s)
        hits == {i \in 1..Len(ks) : DigitsLetterAt(s, ks[i]).ok}
    IN  IF hits = {} THEN NoMatch
        ELSE DigitsLetterAt(s, ks[CHOOSE i \in hits : \A j \in hits : i <= j])

StartsWith(s, w) == Len(s) >= Len(w) /\ SubSeq(s, 1, Len(w)) = w

\* re.match("(easy|normal|EASY|NORMAL)", s): group 1, or <<>> for no match
MatchDifficulty(s) ==
    IF StartsWith(s, WordEasy) THEN WordEasy
    ELSE IF StartsWith(s, WordNormal) THEN WordNormal
    ELSE IF StartsWith(s, WordEASY) THEN WordEASY
    ELSE IF StartsWith(s, WordNORMAL) THEN WordNORMAL
    ELSE <<>>

\* the marker group compared with the ASCII forms only
MarkerKindAsciiOnly(g1) ==
    IF g1 = <<Bang>> THEN "check"
    ELSE IF g1 = <<Bang, Bang>> THEN "uncheck"
    ELSE "open"

\* the kind of command the marker group selects
MarkerKind(g1) ==
    IF g1 = <<Bang>> \/ g1 = <<WideBang>> THEN "check"
    ELSE IF g1 = <<Bang, Bang>> \/ g1 = <<WideBang, WideBang>> THEN "uncheck"
    ELSE "open"

\* the column taken from the letter as written, without lower()
CellPosCaseSensitive(m) == <<m.letter - 97, IntOfDigits(m.digits)>>

\* (ord(letter.lower()) - ord('a'), int(digits))
CellPos(m) == <<Lower(m.letter) - 97, IntOfDigits(m.digits)>>

(***************************************************************************)
(* What decode_danmu does, as the sequence of its steps.  A step is        *)
(*   [k |-> kind, cmd |-> command]  with kind one of                       *)
(*   "json" (json.loads), "print", "acquire", "append", "release",         *)
(*   "except" (the handler of the try block);                              *)
(* a command is <<user, kind, argument>>, as the tuples of danmu_list.     *)
(***************************************************************************)
NoCmd == <<JLit(<<>>), "", <<>>>>
Step(k) == [k |-> k, cmd |-> NoCmd]
AppendStep(user, kind, arg) == [k |-> "append", cmd |-> <<user, kind, arg>>]

\* an append that leaves the lock held
LockedAppendNoRelease(user, kind, arg) ==
    <<Step("acquire"), AppendStep(user, kind, arg)>>

\* acquire, append, release (lines 86-88, 100-102)
LockedAppend(user, kind, arg) ==
    <<Step("acquire"), AppendStep(user, kind, arg), Step("release")>>

\* the marker tests as independent ifs: after a "check" append the final
\* else appends "open" as well
CellStepsIfIf(user, m) ==
    <<Step("acquire")>>
    \o (IF MarkerKind(m.g1) = "check"
        THEN <<AppendStep(user, "check", CellPos(m))>> ELSE <<>>)
    \o (IF MarkerKind(m.g1) = "uncheck"
        THEN <<AppendStep(user, "uncheck", CellPos(m))>>
        ELSE <<AppendStep(user, "open", CellPos(m))>>)
    \o <<Step("release"), Step("print")>>

\* a cell command: append under the lock, then print (lines 108-119, 123-134)
CellSteps(user, m) ==
    LockedAppend(user, MarkerKind(m.g1), CellPos(m)) \o <<Step("print")>>

\* the difficulty command: the print is inside the lock (lines 138-141)
DifficultySteps(user, word) ==
    <<Step("acquire"), AppendStep(user, "difficulty", UpperText(word)),
      Step("print"), Step("release")>>

\* lines 106-141: the patterns in the order the code tries them
ClassifyText(user, text) ==
    LET m1 == MatchLetterDigits(text)
        m2 == MatchDigitsLetter(text)
        m3 == MatchDifficulty(text)
    IN  IF m1.ok THEN CellSteps(user, m1)
        ELSE IF m2.ok THEN CellSteps(user, m2)
        ELSE IF m3 # <<>> THEN DifficultySteps(user, m3)
        ELSE <<>>

Failed == <<Step("except")>>

\* every gift appends, whatever its name
SendGiftStepsAnyGift(jd) ==
    LET d     == GetKey(jd, KeyData)
        uname == GetKey(d.val, KeyUname)
        num   == GetKey(d.val, KeyNum)
        gift  == GetKey(d.val, KeyGiftName)
    IN  IF ~d.ok THEN Failed
        ELSE IF ~uname.ok \/ ~num.ok \/ ~gift.ok THEN Failed
        ELSE <<Step("print")>> \o LockedAppend(uname.val, "gift", <<>>)

\* lines 81-88
SendGiftSteps(jd) ==
    LET d     == GetKey(jd, KeyData)
        uname == GetKey(d.val, KeyUname)
        num   == GetKey(d.val, KeyNum)
        gift  == GetKey(d.val, KeyGiftName)
    IN  IF ~d.ok THEN Failed
        ELSE IF ~uname.ok \/ ~num.ok \/ ~gift.ok THEN Failed
        ELSE <<Step("print")>>
             \o (IF IsText(gift.val, TrackedGift)
                 THEN LockedAppend(uname.val, "gift", <<>>) ELSE <<>>)

\* lines 96-102
GuardBuySteps(jd) ==
    LET d    == GetKey(jd, KeyData)
        user == GetKey(d.val, KeyUsername)
    IN  IF ~d.ok THEN Failed
        ELSE IF ~user.ok THEN Failed
        ELSE <<Step("print")>> \o LockedAppend(user.val, "gift", <<>>)

\* lines 103-141
DanmuMsgSteps(jd) ==
    LET info  == GetKey(jd, KeyInfo)
        info2 == GetIndex(info.val, 2)
        user  == GetIndex(info2.val, 1)
        text  == GetIndex(info.val, 1)
    IN  IF ~info.ok THEN Failed
        ELSE IF ~info2.ok THEN Failed
        ELSE IF ~user.ok \/ ~text.ok THEN Failed
        ELSE <<Step("print")>>
             \o (IF text.val.t # "str" THEN Failed
                 ELSE ClassifyText(user.val, text.val.v))

\* lines 79-143: the try block run on the payload of an opcode-5 frame
BusinessSteps(payload) ==
    LET jd  == JsonLoads(Utf8DecodeIgnore(payload))
        cmd == GetKey(jd.val, KeyCmd)
    IN  <<Step("json")>>
        \o (IF jd.st # "ok" THEN Failed
            ELSE IF ~cmd.ok THEN Failed
            ELSE IF IsText(cmd.val, CmdSendGift) THEN SendGiftSteps(jd.val)
            ELSE IF IsText(cmd.val, CmdGuardBuy) THEN GuardBuySteps(jd.val)
            ELSE IF IsText(cmd.val, CmdDanmuMsg) THEN DanmuMsgSteps(jd.val)
            ELSE <<>>)

(***************************************************************************)
(* decode_danmu.  The result of a call is a record                         *)
(*   steps   the steps it performed, in order                              *)
(*   leaves  the frames that reached the dispatch on version and opcode    *)
(*           (lines 72-78), in the order they were processed               *)
(*   exc     the exception that left the call, "" when it returned         *)
(*   depth   the deepest nesting of decode_danmu calls that was reached    *)
(*   unmodelled  an input outside what ZlibDecompress or JsonLoads model   *)
(***************************************************************************)
Max(a, b) == IF a >= b THEN a ELSE b

\* Stands for the interpreter's limit on nested calls (1000 by default).
\* A buffer of this model either needs fewer nested calls than this or
\* recurses without end, so no result depends on the value.
RecursionLimit == 12

Returned(steps, leaves, depth) ==
    [steps |-> steps, leaves |-> leaves, exc |-> "", depth |-> depth,
     unmodelled |-> FALSE]

Raised(exc, depth) ==
    [steps |-> <<>>, leaves |-> <<>>, exc |-> exc, depth |-> depth,
     unmodelled |-> FALSE]

Unmodelled(depth) ==
    [steps |-> <<>>, leaves |-> <<>>, exc |-> "", depth |-> depth,
     unmodelled |-> TRUE]

\* b runs after a has returned
Then(a, b) ==
    [steps |-> a.steps \o b.steps, leaves |-> a.leaves \o b.leaves,
     exc |-> b.exc, depth |-> Max(a.depth, b.depth),
     unmodelled |-> a.unmodelled \/ b.unmodelled]

\* a dispatch that looks at the opcode only
LeafStepsAnyVersion(ver, op, payload) ==
    IF op = 5 THEN BusinessSteps(payload) ELSE <<>>

\* lines 72-143 on one frame that is not compressed
LeafSteps(ver, op, payload) ==
    IF ver = 1 THEN <<>>
    ELSE IF op = 5 THEN BusinessSteps(payload)
    ELSE <<>>

Leaf(ver, op, frame, depth) ==
    LET payload == From(frame, 16)
    IN  [steps |-> LeafSteps(ver, op, payload),
         leaves |-> <<[ver |-> ver, op |-> op, payload |-> payload]>>,
         exc |-> "", depth |-> depth,
         unmodelled |-> ver # 1 /\ op = 5
                        /\ JsonLoads(Utf8DecodeIgnore(payload)).st = "unmodelled"]

\* a comparison that is off by one
HasRestInclusive(data, packet_len) == Len(data) >= packet_len

\* lines 63-65: whether the rest of the buffer is decoded by a nested call
HasRest(data, packet_len) == Len(data) > packet_len

\* a wrapper without its return: the wrapping frame is dispatched as well
WrapperFallsThrough(inner, ver, op, frame, depth) ==
    IF inner.exc # "" THEN inner ELSE Then(inner, Leaf(ver, op, frame, depth))

\* lines 69-70: after the nested call on the decompressed buffer the
\* wrapping frame is done
WrapperResult(inner, ver, op, frame, depth) == inner

RECURSIVE decode_danmu(_, _)
decode_danmu(data, depth) ==
    IF depth > RecursionLimit THEN Raised("RecursionError", depth)
    ELSE
      LET hl == HexInt(Slice(data, 0, 4))
          hv == HexInt(Slice(data, 6, 8))
          ho == HexInt(Slice(data, 8, 12))
      IN  IF ~hl.ok \/ ~hv.ok \/ ~ho.ok THEN Raised("ValueError", depth)
          ELSE
            LET packet_len == hl.v
                ver   == hv.v
                op    == ho.v
                rest  == IF HasRest(data, packet_len)
                         THEN decode_danmu(From(data, packet_len), depth + 1)
                         ELSE Returned(<<>>, <<>>, depth)
                frame == IF HasRest(data, packet_len)
                         THEN Slice(data, 0, packet_len) ELSE data
                z     == ZlibDecompress(From(frame, 16))
            IN  IF rest.exc # "" \/ rest.unmodelled THEN rest
                ELSE IF ver = 2 THEN
                  IF z.st = "error" THEN Then(rest, Raised("zlib.error", depth))
                  ELSE IF z.st = "unmodelled" THEN Then(rest, Unmodelled(depth))
                  ELSE Then(rest, WrapperResult(decode_danmu(z.out, depth + 1),
                                                 ver, op, frame, depth))
                ELSE Then(rest, Leaf(ver, op, frame, depth))

(***************************************************************************)
(* The other end of the wire: how the buffers that reach decode_danmu are  *)
(* built.  A frame is a 16-byte header (length, header length 16, version, *)
(* opcode, sequence number, all big-endian) and a payload; a version-2     *)
(* frame carries a zlib stream of concatenated frames.                     *)
(***************************************************************************)
\* the concatenation of f[lo..hi], halving the range
RECURSIVE ConcatRange(_, _, _)
ConcatRange(f, lo, hi) ==
    IF lo > hi THEN <<>>
    ELSE IF lo = hi THEN f[lo]
    ELSE LET mid == (lo + hi) \div 2
         IN  ConcatRange(f, lo, mid) \o ConcatRange(f, mid + 1, hi)

Concat(f) == ConcatRange(f, 1, Len(f))

BE16(n) == <<n \div 256, n % 256>>
BE32(n) == <<n \div 16777216, (n \div 65536) % 256, (n \div 256) % 256, n % 256>>
LE16(n) == <<n % 256, n \div 256>>

\* a frame whose length field is len
FrameWithLength(len, ver, op, payload) ==
    BE32(len) \o BE16(16) \o BE16(ver) \o BE32(op) \o BE32(1) \o payload

\* a well-formed frame: the length field is 16 + the payload size
MkFrame(ver, op, payload) ==
    FrameWithLength(16 + Len(payload), ver, op, payload)

\* a zlib stream that holds data in one stored block
ZlibStore(data) ==
    <<120, 1, 1>> \o LE16(Len(data)) \o LE16(65535 - Len(data)) \o data
    \o Adler32Bytes(data)

Utf8EncodeOne(c) ==
    IF c < 128 THEN <<c>>
    ELSE IF c < 2048 THEN <<192 + (c \div 64), 128 + (c % 64)>>
    ELSE <<224 + (c \div 4096), 128 + ((c \div 64) % 64), 128 + (c % 64)>>

Utf8Encode(text) == Concat([i \in 1..Len(text) |-> Utf8EncodeOne(text[i])])

RECURSIVE DecimalText(_)
DecimalText(n) ==
    IF n < 10 THEN <<48 + n>>
    ELSE Append(DecimalText(n \div 10), 48 + (n % 10))

\* the JSON text of a value, without whitespace
RECURSIVE JsonText(_)
JsonText(v) ==
    IF v.t = "str" THEN <<34>> \o v.v \o <<34>>
    ELSE IF v.t = "num" THEN DecimalText(v.v)
    ELSE IF v.t = "lit" THEN v.v
    ELSE IF v.t = "arr"
      THEN <<91>>
           \o Concat([i \in 1..Len(v.v) |->
                        (IF i > 1 THEN <<44>> ELSE <<>>) \o JsonText(v.v[i])])
           \o <<93>>
    ELSE <<123>>
         \o Concat([i \in 1..Len(v.v) |->
                      (IF i > 1 THEN <<44>> ELSE <<>>)
                      \o <<34>> \o v.v[i].k \o <<34, 58>> \o JsonText(v.v[i].v)])
         \o <<125>>

Member(k, v) == [k |-> k, v |-> v]

\* the business events of the chat room
DanmuMsg(user, text) ==
    JObj(<<Member(KeyCmd, JStr(CmdDanmuMsg)),
           Member(KeyInfo, JArr(<<JNum(0), JStr(text),
                                  JArr(<<JNum(0), JStr(user)>>)>>))>>)

SendGift(user, giftName) ==
    JObj(<<Member(KeyCmd, JStr(CmdSendGift)),
           Member(KeyData, JObj(<<Member(KeyUname, JStr(user)),
                                  Member(KeyNum, JNum(1)),
                                  Member(KeyGiftName, JStr(giftName))>>))>>)

GuardBuy(user) ==
    JObj(<<Member(KeyCmd, JStr(CmdGuardBuy)),
           Member(KeyData, JObj(<<Member(KeyUsername, JStr(user))>>))>>)

PayloadOf(v) == Utf8Encode(JsonText(v))

\* Descriptions of frames: a plain frame with its payload, or a version-2
\* frame that wraps the frames of inner.
Plain(ver, op, payload) ==
    [ver |-> ver, op |-> op, payload |-> payload, inner |-> <<>>, zip |-> FALSE]
Zip(op, inner) ==
    [ver |-> 2, op |-> op, payload |-> <<>>, inner |-> inner, zip |-> TRUE]

RECURSIVE FrameBytes(_)
FrameBytes(f) ==
    IF f.zip
    THEN MkFrame(2, f.op,
                 ZlibStore(Concat([i \in 1..Len(f.inner) |-> FrameBytes(f.inner[i])])))
    ELSE MkFrame(f.ver, f.op, f.payload)

\* the buffer that carries the frames of items, followed by tail
BufferBytes(items, tail) ==
    Concat([i \in 1..Len(items) |-> FrameBytes(items[i])]) \o tail

\* the frames of items that are not wrappers, in the order of the buffer
RECURSIVE LeafFrames(_)
LeafFrames(items) ==
    Concat([i \in 1..Len(items) |->
              IF items[i].zip THEN LeafFrames(items[i].inner) ELSE <<items[i]>>])

(***************************************************************************)
(* The frames the client sends: startup builds the join frame as a text of *)
(* hexadecimal digits and converts it with bytes.fromhex (lines 37-42);    *)
(* send_heartbeat converts a fixed text (lines 48-51).                     *)
(***************************************************************************)
HexDigitChar(d) == IF d < 10 THEN 48 + d ELSE 87 + d

\* hex(n)[2:]
RECURSIVE HexText(_)
HexText(n) ==
    IF n < 16 THEN <<HexDigitChar(n)>>
    ELSE HexText(n \div 16) \o <<HexDigitChar(n % 16)>>

\* the value of a hexadecimal digit, -1 for any other character
NibbleOf(c) ==
    IF c >= 48 /\ c <= 57 THEN c - 48
    ELSE IF c >= 97 /\ c <= 102 THEN c - 87
    ELSE IF c >= 65 /\ c <= 70 THEN c - 55
    ELSE -1

\* bytes.fromhex(t) for a text without white space: ValueError on an odd
\* number of digits or on a character that is no hexadecimal digit
FromHex(t) ==
    IF Len(t) % 2 = 1 \/ \E i \in 1..Len(t) : NibbleOf(t[i]) < 0
    THEN [ok |-> FALSE, bytes |-> <<>>]
    ELSE [ok |-> TRUE,
          bytes |-> [i \in 1..(Len(t) \div 2) |->
                        16 * NibbleOf(t[2 * i - 1]) + NibbleOf(t[2 * i])]]

\* line 37, '000000' before {headerLen}
JoinHexHead ==
    <<48, 48, 48, 48, 48, 48>>
\* line 37, between {headerLen} and {roomid}
JoinHexMiddle ==
    <<48, 48, 49, 48, 48, 48, 48, 49, 48, 48, 48, 48, 48, 48, 48, 55, 48,
      48, 48, 48, 48, 48, 48, 49, 55, 98, 50, 50, 55, 50, 54, 102, 54, 102,
      54, 100, 54, 57, 54, 52, 50, 50, 51, 97>>
\* line 37, '7d' after {roomid}
JoinHexTail ==
    <<55, 100>>
\* line 48, hb
HeartbeatHex ==
    <<48, 48, 48, 48, 48, 48, 49, 48, 48, 48, 49, 48, 48, 48, 48, 49, 48,
      48, 48, 48, 48, 48, 48, 50, 48, 48, 48, 48, 48, 48, 48, 49>>

\* the format field headerLen with the length taken one short
headerLenShort(room_id) == HexText(26 + Len(room_id))

\* line 38: headerLen = hex(27 + len(self.room_id))[2:]
headerLen(room_id) == HexText(27 + Len(room_id))

\* line 39: roomid = ''.join(map(lambda x: hex(ord(x))[2:], list(self.room_id)))
roomid(room_id) == Concat([i \in 1..Len(room_id) |-> HexText(room_id[i])])

\* lines 37-39: data_raw after format
data_raw(room_id) ==
    JoinHexHead \o headerLen(room_id) \o JoinHexMiddle \o roomid(room_id)
    \o JoinHexTail

\* line 42: bytes.fromhex(data_raw)
JoinFrame(room_id) == FromHex(data_raw(room_id))

\* line 51: bytes.fromhex(hb)
HeartbeatFrame == FromHex(HeartbeatHex)

(***************************************************************************)
(* Bounds and the inputs the model draws from                              *)
(***************************************************************************)
\* the number of inbound messages the session receives
MaxMessages == 2
\* the longest run of frames in one buffer
MaxFrames == 3
\* the number of heartbeat frames the session sends
MaxHeartbeats == 2
\* the longest room id
MaxRoomLen == 3

\* line 50: asyncio.sleep(30)
HeartbeatInterval == 30
\* the time between two observations of the clock
TimeStep == HeartbeatInterval \div 2

\* Danmuji.room_id of the session, a full room id: '92613'
RoomId == <<57, 50, 54, 49, 51>>

\* the number of commands the session thread appends while the game runs
MaxDanmu == 2
\* the number of mouse events
MaxEvents == 1
\* the number of times the clock is seen to advance
MaxTicks == 4
\* the number of start() and stop() calls on a timer on its own
MaxCalls == 3

UserU == <<117>>            \* 'u'
UserV == <<118>>            \* 'v'
TextA5    == <<65, 53>>                 \* 'A5'
TextBangB12 == <<33, 98, 49, 50>>       \* '!b12'
TextHello == <<104, 101, 108, 108, 111>>
GiftOther == <<102, 108, 111, 119, 101, 114>>   \* 'flower'
GiftPrefix == <<21507>>                         \* the first character of the tracked name
GiftLonger == TrackedGift \o <<33>>             \* the tracked name and '!'
TextA5Easy == TextA5 \o WordEasy                \* 'A5easy'

\* the commands of a result, in the order they were appended
AppendSteps(steps) == SelectSeq(steps, LAMBDA e : e.k = "append")
CmdsOf(steps) == [i \in 1..Len(AppendSteps(steps)) |-> AppendSteps(steps)[i].cmd]

\* Business events with the commands sections 4.2 and 4.3 of the
\* specification expect of them.
Event(json, cmds) == [payload |-> PayloadOf(json), cmds |-> cmds]

EvOpen     == Event(DanmuMsg(UserU, TextA5), <<<<JStr(UserU), "open", <<0, 5>>>>>>)
EvCheck    == Event(DanmuMsg(UserV, TextBangB12), <<<<JStr(UserV), "check", <<1, 12>>>>>>)
EvEasy     == Event(DanmuMsg(UserU, WordEasy), <<<<JStr(UserU), "difficulty", WordEASY>>>>)
EvChat     == Event(DanmuMsg(UserU, TextHello), <<>>)
EvGift     == Event(SendGift(UserU, TrackedGift), <<<<JStr(UserU), "gift", <<>>>>>>)
EvOtherGift == Event(SendGift(UserU, GiftOther), <<>>)
EvGuard    == Event(GuardBuy(UserV), <<<<JStr(UserV), "gift", <<>>>>>>)
EvGuardU   == Event(GuardBuy(UserU), <<<<JStr(UserU), "gift", <<>>>>>>)
EvGiftV    == Event(SendGift(UserV, TrackedGift), <<<<JStr(UserV), "gift", <<>>>>>>)
EvGiftPrefix == Event(SendGift(UserV, GiftPrefix), <<>>)
EvGiftLonger == Event(SendGift(UserU, GiftLonger), <<>>)
EvGiftEmpty  == Event(SendGift(UserU, <<>>), <<>>)
EvOpenEasy == Event(DanmuMsg(UserV, TextA5Easy), <<<<JStr(UserV), "open", <<0, 5>>>>>>)

GoodEvents ==
    { EvOpen, EvCheck, EvEasy, EvChat, EvGift, EvOtherGift, EvGuard, EvGuardU,
      EvGiftV, EvGiftPrefix, EvGiftLonger, EvGiftEmpty, EvOpenEasy }

\* Payloads of the kinds section 7(d) of the specification lists: malformed
\* JSON, a missing key or position, an unrecognized cmd.
DropLast(s, n) == SubSeq(s, 1, Len(s) - n)

BadPayloads ==
    { DropLast(EvOpen.payload, 1),                       \* unterminated object
      DropLast(EvGift.payload, 4),                       \* cut inside a text
      <<>>,                                              \* empty payload
      PayloadOf(JObj(<<Member(KeyData, JObj(<<>>))>>)),  \* no cmd
      PayloadOf(JArr(<<JStr(CmdGuardBuy)>>)),            \* not an object
      PayloadOf(JObj(<<Member(KeyCmd, JStr(<<87, 69>>))>>)),   \* cmd 'WE'
      PayloadOf(JObj(<<Member(KeyCmd, JStr(CmdSendGift))>>)),  \* no data
      PayloadOf(JObj(<<Member(KeyCmd, JStr(CmdSendGift)),
                       Member(KeyData, JObj(<<Member(KeyNum, JNum(1)),
                          Member(KeyGiftName, JStr(TrackedGift))>>))>>)),  \* no uname
      PayloadOf(JObj(<<Member(KeyCmd, JStr(CmdSendGift)),
                       Member(KeyData, JObj(<<Member(KeyUname, JStr(UserU)),
                          Member(KeyNum, JNum(1))>>))>>)),       \* no giftName
      PayloadOf(JObj(<<Member(KeyCmd, JStr(CmdGuardBuy)),
                       Member(KeyData, JObj(<<Member(KeyUname, JStr(UserU))>>))>>)),
                                                         \* no username
      PayloadOf(JObj(<<Member(KeyCmd, JStr(CmdDanmuMsg))>>)),  \* no info
      PayloadOf(JObj(<<Member(KeyCmd, JStr(CmdDanmuMsg)),
                       Member(KeyInfo, JArr(<<JNum(0)>>))>>)),         \* no info[2]
      PayloadOf(JObj(<<Member(KeyCmd, JStr(CmdDanmuMsg)),
                       Member(KeyInfo, JArr(<<JNum(0), JStr(TextA5),
                                              JArr(<<JNum(0)>>)>>))>>)), \* no info[2][1]
      PayloadOf(JObj(<<Member(KeyCmd, JStr(CmdDanmuMsg)),
                       Member(KeyInfo, JArr(<<JNum(0), JNum(5),
                          JArr(<<JNum(0), JStr(UserU)>>)>>))>>)) }   \* info[1] no text

BadEvents == {[payload |-> p, cmds |-> <<>>] : p \in BadPayloads}

Versions == {0, 1, 3}
Opcodes  == {3, 5, 8}

\* well-formed frames that are not compressed
SingleFrames ==
    {Plain(v, o, e.payload) : v \in Versions, o \in Opcodes,
                              e \in GoodEvents \cup BadEvents}

\* the frames that buffers of several frames are made of
FewFrames ==
    { Plain(0, 5, EvOpen.payload), Plain(0, 5, EvCheck.payload),
      Plain(0, 5, EvGuard.payload), Plain(1, 3, <<0, 0, 0, 7>>),
      Plain(0, 5, DropLast(EvOpen.payload, 1)) }

SeqsUpTo(S, n) == UNION {[1..k -> S] : k \in 1..n}

\* Corrupt ends of a buffer.
ValidBytes == MkFrame(0, 5, EvEasy.payload)
Tails ==
    { SubSeq(ValidBytes, 1, 4),                         \* too short for a header
      SubSeq(ValidBytes, 1, 8),
      SubSeq(ValidBytes, 1, 12),                        \* a cut header
      DropLast(ValidBytes, 5),                          \* a cut payload
      FrameWithLength(0, 0, 5, EvEasy.payload),         \* length field 0
      FrameWithLength(5, 0, 5, EvEasy.payload),         \* length field 5
      FrameWithLength(15, 0, 5, EvEasy.payload),        \* length field 15
      FrameWithLength(0, 0, 5, EvEasy.payload) \o ValidBytes,
      FrameWithLength(900, 0, 5, EvEasy.payload),       \* length beyond the end
      MkFrame(2, 5, <<1, 2, 3>>),                       \* not a zlib stream
      MkFrame(2, 5, DropLast(ZlibStore(ValidBytes), 3)) }   \* cut zlib stream

Input(items, tail) == [items |-> items, tail |-> tail]

\* the buffers decode_danmu is applied to
DecodeInputs ==
    {Input(<<f>>, <<>>) : f \in SingleFrames}
    \cup {Input(fs, <<>>) : fs \in SeqsUpTo(FewFrames, MaxFrames)}
    \cup {Input(<<Zip(o, fs)>>, <<>>) : o \in Opcodes, fs \in SeqsUpTo(FewFrames, 2)}
    \cup {Input(<<f, Zip(5, <<g, h>>)>>, <<>>) : f \in FewFrames, g \in FewFrames,
                                                h \in FewFrames}
    \cup {Input(fs, t) : fs \in {<<>>} \cup SeqsUpTo(FewFrames, 2), t \in Tails}

\* the messages the session receives
Messages ==
    { Input(<<Plain(0, 5, EvOpen.payload)>>, <<>>),
      Input(<<Plain(0, 5, EvCheck.payload), Plain(0, 5, EvGift.payload)>>, <<>>),
      Input(<<Zip(5, <<Plain(0, 5, EvGuard.payload), Plain(0, 5, EvEasy.payload)>>)>>,
            <<>>),
      Input(<<Plain(0, 5, EvOpen.payload)>>, SubSeq(ValidBytes, 1, 4)),
      Input(<<Plain(0, 5, DropLast(EvOpen.payload, 1))>>, <<>>),
      Input(<<>>, MkFrame(2, 5, <<1, 2, 3>>) \o MkFrame(0, 5, EvOpen.payload)) }

\* the messages of the session with its heartbeat loop: two commands
\* appended under the lock, and a buffer that ends the receive loop
SessionMessages ==
    { Input(<<Plain(0, 5, EvCheck.payload), Plain(0, 5, EvGift.payload)>>, <<>>),
      Input(<<>>, MkFrame(2, 5, <<1, 2, 3>>) \o MkFrame(0, 5, EvOpen.payload)) }

\* the commands sections 4.2 and 4.3 of the specification expect of a
\* payload carried by an opcode-5 frame
EventCmds(payload) ==
    (CHOOSE e \in GoodEvents \cup BadEvents : e.payload = payload).cmds

\* the commands expected of the leaf frames of items, in buffer order
ExpectedCmds(items) ==
    LET fs == LeafFrames(items)
    IN  Concat([i \in 1..Len(fs) |->
                  IF fs[i].op = 5 THEN EventCmds(fs[i].payload) ELSE <<>>])

(***************************************************************************)
(* Timer (game.py lines 60-104).  A timer is the record of its fields; the *)
(* clock is pygame.time.get_ticks(), in milliseconds.                      *)
(***************************************************************************)
\* Python's None in a field of a timer that was never started
None == -1

\* Timer.__init__ (lines 69-75)
Timer(show_label_interval) ==
    [running |-> FALSE, start_time |-> None, interval |-> None,
     show_label_interval |-> show_label_interval]

\* Timer.start (lines 77-81)
start(t, interval, clock) ==
    [t EXCEPT !.running = TRUE, !.interval = interval, !.start_time = clock]

\* Timer.stop (lines 83-85)
stop(t) == [t EXCEPT !.running = FALSE]

\* line 94: the time left until the event
countdown_of(t, clock) == t.start_time + t.interval - clock

\* lines 96-99: the text check() gives the countdown label
label_text(t, clock) ==
    LET c == countdown_of(t, clock)
    IN  IF c > 0 /\ (t.show_label_interval = None \/ c <= t.show_label_interval)
        THEN DecimalText(c \div 1000)
        ELSE <<>>

\* a check() that leaves the timer running when it calls the event
checkKeepsRunning(t, clock, label) ==
    IF ~t.running
    THEN [timer |-> t, label |-> label, event |-> FALSE]
    ELSE [timer |-> t, label |-> label_text(t, clock),
          event |-> countdown_of(t, clock) <= 0]

\* Timer.check (lines 87-104): the timer and the label text it leaves, and
\* whether it calls on_time_event
check(t, clock, label) ==
    IF ~t.running
    THEN [timer |-> t, label |-> label, event |-> FALSE]
    ELSE [timer |-> IF countdown_of(t, clock) <= 0
                    THEN [t EXCEPT !.running = FALSE] ELSE t,
          label |-> label_text(t, clock),
          event |-> countdown_of(t, clock) <= 0]

(***************************************************************************)
(* Game (game.py lines 168-473).  The methods are functions of the record  *)
(* g of the fields of the game, so that a method can call another; the     *)
(* actions below assign the fields from the record.  Board is not part of  *)
(* the sources at hand: game_status and the calls on the board are all     *)
(* that is kept of it.                                                     *)
(***************************************************************************)
DELAY_BEFORE_RESTART_MS == 10000
PLAYER_INPUT_INTERVAL_MS == 60000
\* line 266: the countdown of player_input_timer is shown for its last 30000 ms
PlayerLabelInterval == 30000

\* 'all': Game.player while anyone may play (lines 194, 341)
PlayerAll == JStr(<<97, 108, 108>>)

\* no call on the board
NoCall == [method |-> "none", args |-> <<>>]
BoardCall(method, args) == [method |-> method, args |-> args]

\* Game.reset_player (lines 340-342)
reset_player(g) ==
    [g EXCEPT !.player = PlayerAll,
              !.player_input_timer = stop(g.player_input_timer)]

\* a game over that leaves the player in place
on_status_changeKeepsPlayer(g, new_status, clock) ==
    IF new_status \in {"game_over", "victory"}
    THEN [g EXCEPT !.gameover_restart_timer =
                       start(g.gameover_restart_timer, DELAY_BEFORE_RESTART_MS, clock)]
    ELSE g

\* Game.on_status_change (lines 344-360)
on_status_change(g, new_status, clock) ==
    IF new_status \in {"game_over", "victory"}
    THEN reset_player(
           [g EXCEPT !.gameover_restart_timer =
                        start(g.gameover_restart_timer, DELAY_BEFORE_RESTART_MS, clock)])
    ELSE g

\* the board takes a new status and reports it to on_status_change_callback
\* (line 233)
BoardStatus(g, new_status, clock) ==
    on_status_change([g EXCEPT !.game_status = new_status], new_status, clock)

\* the statuses an operation on a tile or a mouse event can leave the board in
TileOutcomes(status) == {status, "running", "game_over", "victory"}

\* board.open_tile, check_tile_if_unchecked, uncheck_tile_if_checked,
\* on_mouse_up, on_mouse_down: the call, and the status it leaves
BoardOp(g, method, args, new_status, clock) ==
    LET h == [g EXCEPT !.board_call = BoardCall(method, args)]
    IN  IF new_status = g.game_status THEN h
        ELSE BoardStatus(h, new_status, clock)

\* board.reset (line 333): "game status is changed here"
BoardReset(g, clock) ==
    BoardStatus([g EXCEPT !.board_call =
                     BoardCall("reset", <<g.n_rows, g.n_cols, g.n_mines>>)],
                "before_start", clock)

\* Game.set_difficulty (lines 310-326)
set_difficulty(g, d) ==
    [g EXCEPT !.difficulty = d,
              !.n_rows = IF d = WordEASY THEN 10
                         ELSE IF d = WordNORMAL THEN 16 ELSE @,
              !.n_cols = IF d = WordEASY THEN 10
                         ELSE IF d = WordNORMAL THEN 16 ELSE @,
              !.n_mines = IF d = WordEASY THEN 10
                          ELSE IF d = WordNORMAL THEN 40 ELSE @]

\* Game.reset_game (lines 328-338)
reset_game(g, clock) == BoardReset(g, clock)

\* Game.on_difficulty_change (lines 362-368)
on_difficulty_change(g, d, clock) == reset_game(set_difficulty(g, d), clock)

\* anyone may act
AllowedAnyone(g, danmu) == TRUE

\* line 435: the sender may act
Allowed(g, danmu) == g.player = PlayerAll \/ g.player = danmu[1]

\* the difficulty changed whatever the status of the game
DifficultyOpenAlways(status) == TRUE

\* line 442: the difficulty may change
DifficultyOpen(status) == status # "running"

\* the method of the board a cell command calls (lines 448-453)
TileMethod(kind) ==
    IF kind = "open" THEN "open_tile"
    ELSE IF kind = "check" THEN "check_tile_if_unchecked"
    ELSE IF kind = "uncheck" THEN "uncheck_tile_if_checked"
    ELSE "none"

\* lines 445-453: a cell command of a sender who may act
cell_command(g, danmu, new_status, clock) ==
    LET h == IF g.player # PlayerAll
             THEN [g EXCEPT !.player_input_timer =
                       start(g.player_input_timer, PLAYER_INPUT_INTERVAL_MS, clock)]
             ELSE g
    IN  IF TileMethod(danmu[2]) = "none" THEN h
        ELSE BoardOp(h, TileMethod(danmu[2]),
                     <<h.n_rows - danmu[3][2] - 1, danmu[3][1]>>, new_status, clock)

\* lines 434-453: the body of the for loop of process_danmu_list, with the
\* status new_status the board is left in if a tile is operated on
process_danmu(g, danmu, new_status, clock) ==
    IF Allowed(g, danmu)
    THEN IF danmu[2] = "gift"
         THEN IF g.player = PlayerAll
              THEN [g EXCEPT !.player = danmu[1],
                             !.player_input_timer =
                                 start(g.player_input_timer,
                                       PLAYER_INPUT_INTERVAL_MS, clock)]
              ELSE g
         ELSE IF danmu[2] = "difficulty"
         THEN IF DifficultyOpen(g.game_status)
              THEN on_difficulty_change(g, danmu[3], clock)
              ELSE g
         ELSE cell_command(g, danmu, new_status, clock)
    ELSE g

\* lines 213-216: the parameters of a game started without a state file
DefaultState ==
    [difficulty |-> WordEASY, n_rows |-> 10, n_cols |-> 10, n_mines |-> 10]

\* the time between two readings of the clock
ClockStep == PLAYER_INPUT_INTERVAL_MS \div 2

\* the commands the game is given: a gift, a cell command and a difficulty
\* from each of two users
GiftU == <<JStr(UserU), "gift", <<>>>>
GiftV == <<JStr(UserV), "gift", <<>>>>
OpenU == <<JStr(UserU), "open", <<0, 5>>>>
CheckV == <<JStr(UserV), "check", <<1, 12>>>>
UncheckU == <<JStr(UserU), "uncheck", <<1, 12>>>>
NormalU == <<JStr(UserU), "difficulty", WordNORMAL>>
EasyV == <<JStr(UserV), "difficulty", WordEASY>>
GameDanmu == {GiftU, GiftV, OpenU, CheckV, UncheckU, NormalU, EasyV}
\* the commands of one user
OwnerDanmu == {GiftU, OpenU, NormalU}

\* the intervals a timer on its own is started with
TimerIntervals == {0, DELAY_BEFORE_RESTART_MS, PLAYER_INPUT_INTERVAL_MS}

(***************************************************************************)
(* State                                                                   *)
(***************************************************************************)
VARIABLES
    danmu_list,   \* Danmuji.danmu_list
    lock,         \* Danmuji.lock: "free", or the thread that holds it
    recv_pc,      \* recv_danmu: "off", "receive", "decode", "ended"
    recv_todo,    \* the steps decode_danmu has still to perform
    recv_exc,     \* the exception decode_danmu raises after them, or ""
    recv_end,     \* why recv_danmu ended: "", "transport" or an exception
    game_pc,      \* get_danmu_list: "idle", "copy", "clear", "release", "return"
    game_copy,    \* the local danmu_list of get_danmu_list
    n_recv,       \* number of messages received
    clean,        \* history: every message so far held well-formed frames only
    arrived,      \* history: the commands of the received frames, in buffer order
    pushed,       \* history: every command appended to danmu_list
    since,        \* history: the commands appended since the last copy
    window,       \* history: since, as it was at the last copy
    delivered,    \* history: the results of get_danmu_list, concatenated
    fn_pc,        \* application of a function to an input: "ready", "done"
    fn_in,        \* its input
    fn_out,       \* its result
    start_pc,     \* startup: "off", "open", "joined", "waiting", "closed"
    start_end,    \* why startup ended before its loops ran: "" or "transport"
    hb_pc,        \* send_heartbeat: "off", "sleep", "ended"
    hb_left,      \* time units left of asyncio.sleep(30)
    hb_end,       \* why send_heartbeat ended: "" or "transport"
    n_hb,         \* number of heartbeat frames sent
    now,          \* time units passed since the loops were started
    hb_at,        \* history: the time of each heartbeat send
    wire,         \* history: the calls on the transport, in order
    player,       \* Game.player
    difficulty,   \* Game.difficulty
    n_rows,       \* Game.n_rows
    n_cols,       \* Game.n_cols
    n_mines,      \* Game.n_mines
    game_status,  \* Game.board.game_status
    player_input_timer,      \* Game.player_input_timer
    gameover_restart_timer,  \* Game.gameover_restart_timer
    countdown,    \* the text of the label Game.countdown, shared by both timers
    keep_running, \* Game.keep_running
    loop_pc,      \* start_main_loop: "off", "tick", "events", "danmu_list",
                  \* "danmu", "player_timer", "restart_timer", "stopped"
    danmu_todo,   \* process_danmu_list: the commands of the for loop still to come
    ticks,        \* pygame.time.get_ticks()
    n_ticks,      \* number of times the clock was seen to advance
    n_danmu,      \* number of commands the session thread has appended
    n_events,     \* number of mouse events
    board_call,   \* history: the Board method the last step called, or "none"
    last_danmu,   \* history: the command the last step processed, or NoCmd
    timer,        \* a Timer on its own
    n_calls,      \* number of start() and stop() calls on it
    fired,        \* history: on_time_event calls since the last start()
    stopped_early \* history: stop() came before the interval of the last start() elapsed

sessionVars == <<recv_pc, recv_todo, recv_exc, recv_end, n_recv, clean, arrived>>
gameVars    == <<game_pc, game_copy, window, delivered>>
fnVars      == <<fn_pc, fn_in, fn_out>>
startVars   == <<start_pc, start_end>>
hbVars      == <<hb_pc, hb_left, hb_end, n_hb, now, hb_at>>
connVars    == <<start_pc, start_end, hb_pc, hb_left, hb_end, n_hb, now, hb_at,
                 wire>>
fieldVars   == <<player, difficulty, n_rows, n_cols, n_mines, game_status,
                 player_input_timer, gameover_restart_timer, countdown,
                 board_call, last_danmu>>
loopVars    == <<keep_running, loop_pc, danmu_todo, n_danmu, n_events>>
clockVars   == <<ticks, n_ticks>>
timerVars   == <<timer, n_calls, fired, stopped_early>>
playVars    == <<fieldVars, loopVars, clockVars, timerVars>>
vars == <<danmu_list, lock, recv_pc, recv_todo, recv_exc, recv_end, game_pc,
          game_copy, n_recv, clean, arrived, pushed, since, window, delivered,
          fn_pc, fn_in, fn_out, start_pc, start_end, hb_pc, hb_left, hb_end,
          n_hb, now, hb_at, wire, player, difficulty, n_rows, n_cols, n_mines,
          game_status, player_input_timer, gameover_restart_timer, countdown,
          keep_running, loop_pc, danmu_todo, ticks, n_ticks, n_danmu, n_events,
          board_call, last_danmu, timer, n_calls, fired, stopped_early>>

\* the state after Danmuji.__init__ (lines 23-26)
InitDanmuji ==
    /\ danmu_list = <<>>
    /\ lock = "free"
    /\ recv_pc = "off"
    /\ recv_todo = <<>>
    /\ recv_exc = ""
    /\ recv_end = ""
    /\ game_pc = "idle"
    /\ game_copy = <<>>
    /\ n_recv = 0
    /\ clean = TRUE
    /\ arrived = <<>>
    /\ pushed = <<>>
    /\ since = <<>>
    /\ window = <<>>
    /\ delivered = <<>>
    /\ start_pc = "off"
    /\ start_end = ""
    /\ hb_pc = "off"
    /\ hb_left = 0
    /\ hb_end = ""
    /\ n_hb = 0
    /\ now = 0
    /\ hb_at = <<>>
    /\ wire = <<>>

\* the state after Game.__init__ (lines 193-270) with the state file state
InitGame(state) ==
    /\ player = PlayerAll
    /\ difficulty = state.difficulty
    /\ n_rows = state.n_rows
    /\ n_cols = state.n_cols
    /\ n_mines = state.n_mines
    /\ game_status = "before_start"
    /\ player_input_timer = Timer(PlayerLabelInterval)
    /\ gameover_restart_timer = Timer(None)
    /\ countdown = <<>>
    /\ keep_running = FALSE
    /\ loop_pc = "off"
    /\ danmu_todo = <<>>
    /\ ticks = 0
    /\ n_ticks = 0
    /\ n_danmu = 0
    /\ n_events = 0
    /\ board_call = NoCall
    /\ last_danmu = NoCmd

\* a timer on its own, after Timer.__init__
InitTimer(show_label_interval) ==
    /\ timer = Timer(show_label_interval)
    /\ n_calls = 0
    /\ fired = 0
    /\ stopped_early = FALSE

\* the game thread before start_main_loop, with no state file
InitPlay == InitGame(DefaultState) /\ InitTimer(None)

Init ==
    /\ InitDanmuji
    /\ InitPlay
    /\ fn_pc = "none"
    /\ fn_in = <<>>
    /\ fn_out = <<>>

(***************************************************************************)
(* The session thread: startup and recv_danmu                              *)
(***************************************************************************)
\* an acquire that never waits
CanAcquireAlways(l) == TRUE

\* Lock.acquire() returns only when no thread holds the lock
CanAcquire(l) == l = "free"

\* the calls on the transport
Opened == [call |-> "open", data |-> <<>>]
Sent(frame) == [call |-> "send", data |-> frame]
Received == [call |-> "receive", data |-> <<>>]

\* the loops started as soon as the transport is open
LoopsMayStartUnjoined(pc) == pc \in {"open", "joined"}

\* line 43 is reached only after the send of line 42 has returned
LoopsMayStart(pc) == pc = "joined"

\* line 40: async with AioWebSocket(url) opens the transport
startup_open ==
    /\ start_pc = "off"
    /\ start_pc' = "open"
    /\ wire' = Append(wire, Opened)
    /\ UNCHANGED <<danmu_list, lock, pushed, since, start_end>>
    /\ UNCHANGED sessionVars /\ UNCHANGED gameVars /\ UNCHANGED fnVars
    /\ UNCHANGED playVars
    /\ UNCHANGED hbVars

\* lines 37-42: the join frame is built and sent
startup_send ==
    /\ start_pc = "open"
    /\ JoinFrame(RoomId).ok
    /\ start_pc' = "joined"
    /\ wire' = Append(wire, Sent(JoinFrame(RoomId).bytes))
    /\ UNCHANGED <<danmu_list, lock, pushed, since, start_end>>
    /\ UNCHANGED sessionVars /\ UNCHANGED gameVars /\ UNCHANGED fnVars
    /\ UNCHANGED playVars
    /\ UNCHANGED hbVars

\* lines 43-44: recv_danmu and send_heartbeat are started, startup waits
\* for both to end
startup_wait ==
    /\ LoopsMayStart(start_pc)
    /\ start_pc' = "waiting"
    /\ recv_pc' = "receive"
    /\ hb_pc' = "sleep"
    /\ hb_left' = HeartbeatInterval
    /\ UNCHANGED <<danmu_list, lock, recv_todo, recv_exc, recv_end, n_recv,
                   clean, arrived, pushed, since, start_end, hb_end, n_hb, now,
                   hb_at, wire>>
    /\ UNCHANGED gameVars /\ UNCHANGED fnVars
    /\ UNCHANGED playVars

\* lines 40, 42: opening the transport or the send of the join frame raises;
\* startup ends and no loop is started
startup_fault ==
    /\ start_pc \in {"off", "open"}
    /\ start_pc' = "closed"
    /\ start_end' = "transport"
    /\ UNCHANGED <<danmu_list, lock, pushed, since, wire>>
    /\ UNCHANGED sessionVars /\ UNCHANGED gameVars /\ UNCHANGED fnVars
    /\ UNCHANGED playVars
    /\ UNCHANGED hbVars

\* line 44: asyncio.wait returns once both loops have ended, the async with
\* block is left and the transport closed
startup_close ==
    /\ start_pc = "waiting"
    /\ recv_pc = "ended" /\ hb_pc = "ended"
    /\ start_pc' = "closed"
    /\ UNCHANGED <<danmu_list, lock, pushed, since, start_end, wire>>
    /\ UNCHANGED sessionVars /\ UNCHANGED gameVars /\ UNCHANGED fnVars
    /\ UNCHANGED playVars
    /\ UNCHANGED hbVars

\* run / startup (lines 35-44, 150-155), up to the wait for its loops
startup ==
    startup_open \/ startup_send \/ startup_wait \/ startup_fault

\* line 55-56: a message arrives and decode_danmu is called on it
recv_danmu(m) ==
    /\ recv_pc = "receive"
    /\ n_recv < MaxMessages
    /\ LET r == decode_danmu(BufferBytes(m.items, m.tail), 1)
       IN  /\ recv_todo' = r.steps
           /\ recv_exc' = r.exc
    /\ recv_pc' = "decode"
    /\ n_recv' = n_recv + 1
    /\ clean' = (clean /\ m.tail = <<>>)
    /\ arrived' = arrived \o ExpectedCmds(m.items)
    /\ wire' = Append(wire, Received)
    /\ UNCHANGED <<danmu_list, lock, recv_end, pushed, since>>
    /\ UNCHANGED gameVars /\ UNCHANGED fnVars /\ UNCHANGED startVars
    /\ UNCHANGED playVars
    /\ UNCHANGED hbVars

\* line 55: websocket.receive() raises, the coroutine ends
transport_fault ==
    /\ recv_pc = "receive"
    /\ recv_pc' = "ended"
    /\ recv_end' = "transport"
    /\ UNCHANGED <<danmu_list, lock, recv_todo, recv_exc, n_recv, clean,
                   arrived, pushed, since>>
    /\ UNCHANGED gameVars /\ UNCHANGED fnVars /\ UNCHANGED connVars
    /\ UNCHANGED playVars

NextStepIs(k) == recv_pc = "decode" /\ recv_todo # <<>> /\ Head(recv_todo).k = k

\* self.lock.acquire() in decode_danmu
decode_acquire ==
    /\ NextStepIs("acquire")
    /\ CanAcquire(lock)
    /\ lock' = "session"
    /\ recv_todo' = Tail(recv_todo)
    /\ UNCHANGED <<danmu_list, recv_pc, recv_exc, recv_end, n_recv, clean,
                   arrived, pushed, since>>
    /\ UNCHANGED gameVars /\ UNCHANGED fnVars /\ UNCHANGED connVars
    /\ UNCHANGED playVars

\* self.danmu_list.append(...)
decode_append ==
    /\ NextStepIs("append")
    /\ danmu_list' = Append(danmu_list, Head(recv_todo).cmd)
    /\ pushed' = Append(pushed, Head(recv_todo).cmd)
    /\ since' = Append(since, Head(recv_todo).cmd)
    /\ recv_todo' = Tail(recv_todo)
    /\ UNCHANGED <<lock, recv_pc, recv_exc, recv_end, n_recv, clean, arrived>>
    /\ UNCHANGED gameVars /\ UNCHANGED fnVars /\ UNCHANGED connVars
    /\ UNCHANGED playVars

\* self.lock.release() in decode_danmu
decode_release ==
    /\ NextStepIs("release")
    /\ lock' = "free"
    /\ recv_todo' = Tail(recv_todo)
    /\ UNCHANGED <<danmu_list, recv_pc, recv_exc, recv_end, n_recv, clean,
                   arrived, pushed, since>>
    /\ UNCHANGED gameVars /\ UNCHANGED fnVars /\ UNCHANGED connVars
    /\ UNCHANGED playVars

\* json.loads, print and the except clause: no shared state is touched
decode_local ==
    /\ \E k \in {"json", "print", "except"} : NextStepIs(k)
    /\ recv_todo' = Tail(recv_todo)
    /\ UNCHANGED <<danmu_list, lock, recv_pc, recv_exc, recv_end, n_recv,
                   clean, arrived, pushed, since>>
    /\ UNCHANGED gameVars /\ UNCHANGED fnVars /\ UNCHANGED connVars
    /\ UNCHANGED playVars

\* decode_danmu returns and the loop of recv_danmu goes on (line 54)
decode_return ==
    /\ recv_pc = "decode" /\ recv_todo = <<>> /\ recv_exc = ""
    /\ recv_pc' = "receive"
    /\ UNCHANGED <<danmu_list, lock, recv_todo, recv_exc, recv_end, n_recv,
                   clean, arrived, pushed, since>>
    /\ UNCHANGED gameVars /\ UNCHANGED fnVars /\ UNCHANGED connVars
    /\ UNCHANGED playVars

\* decode_danmu raises: nothing in recv_danmu catches it, the coroutine ends
decode_raise ==
    /\ recv_pc = "decode" /\ recv_todo = <<>> /\ recv_exc # ""
    /\ recv_pc' = "ended"
    /\ recv_end' = recv_exc
    /\ UNCHANGED <<danmu_list, lock, recv_todo, recv_exc, n_recv, clean,
                   arrived, pushed, since>>
    /\ UNCHANGED gameVars /\ UNCHANGED fnVars /\ UNCHANGED connVars
    /\ UNCHANGED playVars

(***************************************************************************)
(* send_heartbeat (lines 46-51).  It runs on the event loop of recv_danmu, *)
(* so it runs only while recv_danmu waits in receive or has ended.  Time   *)
(* is counted in steps of TimeStep units; asyncio.sleep(30) ends when 30   *)
(* units have passed, and a step of decode_danmu takes no time.           *)
(***************************************************************************)
\* the send not waiting for the sleep
HeartbeatDueAtOnce(left) == TRUE

\* line 50: await asyncio.sleep(30) has returned
HeartbeatDue(left) == left = 0

\* time passes while send_heartbeat sleeps
tick ==
    /\ hb_pc = "sleep"
    /\ hb_left > 0
    /\ n_hb < MaxHeartbeats
    /\ hb_left' = hb_left - TimeStep
    /\ now' = now + TimeStep
    /\ UNCHANGED <<danmu_list, lock, pushed, since, hb_pc, hb_end, n_hb, hb_at,
                   wire>>
    /\ UNCHANGED sessionVars /\ UNCHANGED gameVars /\ UNCHANGED fnVars
    /\ UNCHANGED playVars
    /\ UNCHANGED startVars

\* the event loop runs send_heartbeat: recv_danmu is not inside decode_danmu
HeartbeatRuns ==
    /\ hb_pc = "sleep"
    /\ HeartbeatDue(hb_left)
    /\ recv_pc # "decode"
    /\ n_hb < MaxHeartbeats

\* line 51: the heartbeat frame is sent, line 49-50: the next sleep begins
send_heartbeat ==
    /\ HeartbeatRuns
    /\ HeartbeatFrame.ok
    /\ wire' = Append(wire, Sent(HeartbeatFrame.bytes))
    /\ n_hb' = n_hb + 1
    /\ hb_at' = Append(hb_at, now)
    /\ hb_left' = HeartbeatInterval
    /\ UNCHANGED <<danmu_list, lock, pushed, since, hb_pc, hb_end, now>>
    /\ UNCHANGED sessionVars /\ UNCHANGED gameVars /\ UNCHANGED fnVars
    /\ UNCHANGED playVars
    /\ UNCHANGED startVars

\* line 51: websocket.send raises, the coroutine ends
heartbeat_fault ==
    /\ HeartbeatRuns
    /\ hb_pc' = "ended"
    /\ hb_end' = "transport"
    /\ UNCHANGED <<danmu_list, lock, pushed, since, hb_left, n_hb, now, hb_at,
                   wire>>
    /\ UNCHANGED sessionVars /\ UNCHANGED gameVars /\ UNCHANGED fnVars
    /\ UNCHANGED playVars
    /\ UNCHANGED startVars

(***************************************************************************)
(* The game thread: get_danmu_list (lines 28-33)                           *)
(***************************************************************************)
get_acquire ==
    /\ game_pc = "idle"
    /\ CanAcquire(lock)
    /\ lock' = "game"
    /\ game_pc' = "copy"
    /\ UNCHANGED <<danmu_list, game_copy, window, delivered, pushed, since>>
    /\ UNCHANGED sessionVars /\ UNCHANGED fnVars /\ UNCHANGED connVars
    /\ UNCHANGED playVars

get_copy ==
    /\ game_pc = "copy"
    /\ game_copy' = danmu_list
    /\ window' = since
    /\ since' = <<>>
    /\ game_pc' = "clear"
    /\ UNCHANGED <<danmu_list, lock, delivered, pushed>>
    /\ UNCHANGED sessionVars /\ UNCHANGED fnVars /\ UNCHANGED connVars
    /\ UNCHANGED playVars

get_clear ==
    /\ game_pc = "clear"
    /\ danmu_list' = <<>>
    /\ game_pc' = "release"
    /\ UNCHANGED <<lock, game_copy, window, delivered, pushed, since>>
    /\ UNCHANGED sessionVars /\ UNCHANGED fnVars /\ UNCHANGED connVars
    /\ UNCHANGED playVars

get_release ==
    /\ game_pc = "release"
    /\ lock' = "free"
    /\ game_pc' = "return"
    /\ UNCHANGED <<danmu_list, game_copy, window, delivered, pushed, since>>
    /\ UNCHANGED sessionVars /\ UNCHANGED fnVars /\ UNCHANGED connVars
    /\ UNCHANGED playVars

get_return ==
    /\ game_pc = "return"
    /\ delivered' = delivered \o game_copy
    /\ game_pc' = "idle"
    /\ UNCHANGED <<danmu_list, lock, game_copy, window, pushed, since>>
    /\ UNCHANGED sessionVars /\ UNCHANGED fnVars /\ UNCHANGED connVars
    /\ UNCHANGED playVars

\* the steps of decode_danmu inside recv_danmu
decode_step ==
    \/ decode_acquire
    \/ decode_append
    \/ decode_release
    \/ decode_local
    \/ decode_return
    \/ decode_raise

\* the steps of get_danmu_list, called by the game thread again and again
get_danmu_list ==
    \/ get_acquire
    \/ get_copy
    \/ get_clear
    \/ get_release
    \/ get_return

\* The receive loop and the game thread around danmu_list and its lock.
\* send_heartbeat touches neither and is left to SpecSession.
Next ==
    \/ startup
    \/ \E m \in Messages : recv_danmu(m)
    \/ transport_fault
    \/ decode_step
    \/ get_danmu_list

Spec == Init /\ [][Next]_vars

\* The scheduling the code runs under: both threads keep running, and a
\* thread waiting in Lock.acquire gets the lock when it is released again
\* and again.  No message has to arrive and no fault has to happen.
Fairness ==
    /\ WF_vars(startup_open \/ startup_send \/ startup_wait)
    /\ WF_vars(decode_append \/ decode_release \/ decode_local
               \/ decode_return \/ decode_raise)
    /\ SF_vars(decode_acquire)
    /\ SF_vars(get_acquire)
    /\ WF_vars(get_copy \/ get_clear \/ get_release \/ get_return)

SpecFair == Spec /\ Fairness

\* The whole session: startup, both loops on their event loop, and the game
\* thread, with the messages that take the lock or end the receive loop.
NextSession ==
    \/ startup
    \/ startup_close
    \/ \E m \in SessionMessages : recv_danmu(m)
    \/ transport_fault
    \/ decode_step
    \/ get_danmu_list
    \/ tick
    \/ send_heartbeat
    \/ heartbeat_fault

SpecSession == Init /\ [][NextSession]_vars

\* Time passes, and the event loop runs a coroutine whose sleep has ended.
FairnessSession ==
    /\ Fairness
    /\ WF_vars(tick)
    /\ SF_vars(send_heartbeat \/ heartbeat_fault)

SpecSessionFair == SpecSession /\ FairnessSession

(***************************************************************************)
(* The game thread: Game.start_main_loop (game.py lines 455-473).  Each    *)
(* call of the loop body is one step; the session thread is seen through   *)
(* the commands it appends to danmu_list, and time through the clock.      *)
(***************************************************************************)
\* the fields of the game, before a step has called the board
G ==
    [player |-> player, difficulty |-> difficulty, n_rows |-> n_rows,
     n_cols |-> n_cols, n_mines |-> n_mines, game_status |-> game_status,
     player_input_timer |-> player_input_timer,
     gameover_restart_timer |-> gameover_restart_timer,
     board_call |-> NoCall]

\* the fields of the game become those of g
Becomes(g) ==
    /\ player' = g.player
    /\ difficulty' = g.difficulty
    /\ n_rows' = g.n_rows
    /\ n_cols' = g.n_cols
    /\ n_mines' = g.n_mines
    /\ game_status' = g.game_status
    /\ player_input_timer' = g.player_input_timer
    /\ gameover_restart_timer' = g.gameover_restart_timer
    /\ board_call' = g.board_call

danmujiVars == <<recv_pc, recv_todo, recv_exc, recv_end, n_recv, clean, arrived,
                 pushed, since, game_pc, game_copy, window, delivered, fn_pc,
                 fn_in, fn_out>>

\* line 460, clock.tick(30): the loop waits for its next turn and
\* pygame.time.get_ticks() grows.  ClockStep is a thousand turns of the
\* loop, so within one turn every reading of the clock is the same.
clock_tick ==
    /\ loop_pc = "tick"
    /\ n_ticks < MaxTicks
    /\ ticks' = ticks + ClockStep
    /\ n_ticks' = n_ticks + 1
    /\ UNCHANGED <<danmu_list, lock>>
    /\ UNCHANGED danmujiVars /\ UNCHANGED connVars
    /\ UNCHANGED fieldVars /\ UNCHANGED loopVars /\ UNCHANGED timerVars

\* the session thread appends a command (danmuji.py lines 86-88, 100-102,
\* 108-118, 123-133, 138-141): acquire, append, release.  The game thread
\* reads danmu_list in its drain only, so the commands that arrive during a
\* turn of the loop are taken to arrive before it.
danmu_arrives(danmu) ==
    /\ loop_pc = "tick"
    /\ n_danmu < MaxDanmu
    /\ CanAcquire(lock)
    /\ danmu_list' = Append(danmu_list, danmu)
    /\ n_danmu' = n_danmu + 1
    /\ UNCHANGED <<lock, keep_running, loop_pc, danmu_todo, n_events>>
    /\ UNCHANGED danmujiVars /\ UNCHANGED connVars
    /\ UNCHANGED fieldVars /\ UNCHANGED clockVars /\ UNCHANGED timerVars

\* lines 457-458
start_main_loop ==
    /\ loop_pc = "off"
    /\ keep_running' = TRUE
    /\ loop_pc' = "tick"
    /\ UNCHANGED <<danmu_list, lock, danmu_todo, n_danmu, n_events>>
    /\ UNCHANGED danmujiVars /\ UNCHANGED connVars
    /\ UNCHANGED fieldVars /\ UNCHANGED clockVars /\ UNCHANGED timerVars

\* lines 459-466: the loop goes on while keep_running
loop_tick ==
    /\ loop_pc = "tick"
    /\ loop_pc' = IF keep_running THEN "events" ELSE "stopped"
    /\ Becomes(G)
    /\ last_danmu' = NoCmd
    /\ UNCHANGED <<danmu_list, lock, countdown, keep_running, danmu_todo,
                   n_danmu, n_events>>
    /\ UNCHANGED danmujiVars /\ UNCHANGED connVars
    /\ UNCHANGED clockVars /\ UNCHANGED timerVars

\* process_events, lines 425-429: a mouse event is given to the board
process_mouse_event ==
    /\ loop_pc = "events"
    /\ n_events < MaxEvents
    /\ \E method \in {"on_mouse_up", "on_mouse_down"},
          s \in TileOutcomes(game_status) :
          Becomes(BoardOp(G, method, <<>>, s, ticks))
    /\ n_events' = n_events + 1
    /\ last_danmu' = NoCmd
    /\ UNCHANGED <<danmu_list, lock, countdown, keep_running, loop_pc,
                   danmu_todo, n_danmu>>
    /\ UNCHANGED danmujiVars /\ UNCHANGED connVars
    /\ UNCHANGED clockVars /\ UNCHANGED timerVars

\* process_events, lines 413-415: the window is closed
process_quit_event ==
    /\ loop_pc = "events"
    /\ keep_running' = FALSE
    /\ loop_pc' = "danmu_list"
    /\ Becomes(G)
    /\ last_danmu' = NoCmd
    /\ UNCHANGED <<danmu_list, lock, countdown, danmu_todo, n_danmu, n_events>>
    /\ UNCHANGED danmujiVars /\ UNCHANGED connVars
    /\ UNCHANGED clockVars /\ UNCHANGED timerVars

\* process_events returns: no event is left
process_events_return ==
    /\ loop_pc = "events"
    /\ loop_pc' = "danmu_list"
    /\ Becomes(G)
    /\ last_danmu' = NoCmd
    /\ UNCHANGED <<danmu_list, lock, countdown, keep_running, danmu_todo,
                   n_danmu, n_events>>
    /\ UNCHANGED danmujiVars /\ UNCHANGED connVars
    /\ UNCHANGED clockVars /\ UNCHANGED timerVars

process_events ==
    process_mouse_event \/ process_quit_event \/ process_events_return

\* line 432: danmu_list = self.dmj.get_danmu_list(), the whole of
\* get_danmu_list under its lock
process_drain ==
    /\ loop_pc = "danmu_list"
    /\ CanAcquire(lock)
    /\ danmu_todo' = danmu_list
    /\ danmu_list' = <<>>
    /\ loop_pc' = "danmu"
    /\ Becomes(G)
    /\ last_danmu' = NoCmd
    /\ UNCHANGED <<lock, countdown, keep_running, n_danmu, n_events>>
    /\ UNCHANGED danmujiVars /\ UNCHANGED connVars
    /\ UNCHANGED clockVars /\ UNCHANGED timerVars

\* lines 433-453: one pass of the for loop
process_one ==
    /\ loop_pc = "danmu"
    /\ danmu_todo # <<>>
    /\ \E s \in TileOutcomes(game_status) :
          Becomes(process_danmu(G, Head(danmu_todo), s, ticks))
    /\ last_danmu' = Head(danmu_todo)
    /\ danmu_todo' = Tail(danmu_todo)
    /\ UNCHANGED <<danmu_list, lock, countdown, keep_running, loop_pc,
                   n_danmu, n_events>>
    /\ UNCHANGED danmujiVars /\ UNCHANGED connVars
    /\ UNCHANGED clockVars /\ UNCHANGED timerVars

\* the for loop has ended, process_danmu_list returns
process_return ==
    /\ loop_pc = "danmu"
    /\ danmu_todo = <<>>
    /\ loop_pc' = "player_timer"
    /\ Becomes(G)
    /\ last_danmu' = NoCmd
    /\ UNCHANGED <<danmu_list, lock, countdown, keep_running, danmu_todo,
                   n_danmu, n_events>>
    /\ UNCHANGED danmujiVars /\ UNCHANGED connVars
    /\ UNCHANGED clockVars /\ UNCHANGED timerVars

process_danmu_list == process_drain \/ process_one \/ process_return

\* line 469: self.player_input_timer.check(), its event is reset_player
check_player_input_timer ==
    /\ loop_pc = "player_timer"
    /\ LET r == check(player_input_timer, ticks, countdown)
           g == [G EXCEPT !.player_input_timer = r.timer]
       IN  /\ Becomes(IF r.event THEN reset_player(g) ELSE g)
           /\ countdown' = r.label
    /\ loop_pc' = "restart_timer"
    /\ last_danmu' = NoCmd
    /\ UNCHANGED <<danmu_list, lock, keep_running, danmu_todo, n_danmu,
                   n_events>>
    /\ UNCHANGED danmujiVars /\ UNCHANGED connVars
    /\ UNCHANGED clockVars /\ UNCHANGED timerVars

\* line 470: self.gameover_restart_timer.check(), its event is reset_game
check_gameover_restart_timer ==
    /\ loop_pc = "restart_timer"
    /\ LET r == check(gameover_restart_timer, ticks, countdown)
           g == [G EXCEPT !.gameover_restart_timer = r.timer]
       IN  /\ Becomes(IF r.event THEN reset_game(g, ticks) ELSE g)
           /\ countdown' = r.label
    /\ loop_pc' = "tick"
    /\ last_danmu' = NoCmd
    /\ UNCHANGED <<danmu_list, lock, keep_running, danmu_todo, n_danmu,
                   n_events>>
    /\ UNCHANGED danmujiVars /\ UNCHANGED connVars
    /\ UNCHANGED clockVars /\ UNCHANGED timerVars

NextGame ==
    \/ start_main_loop
    \/ loop_tick
    \/ process_events
    \/ process_danmu_list
    \/ check_player_input_timer
    \/ check_gameover_restart_timer
    \/ \E danmu \in GameDanmu : danmu_arrives(danmu)
    \/ clock_tick

SpecGame == Init /\ [][NextGame]_vars

\* The main loop with the commands of one user and no mouse event.  The
\* loop keeps running while the window is open, and the clock keeps growing.
NextOwner ==
    \/ start_main_loop
    \/ loop_tick
    \/ process_quit_event
    \/ process_events_return
    \/ process_danmu_list
    \/ check_player_input_timer
    \/ check_gameover_restart_timer
    \/ \E danmu \in OwnerDanmu : danmu_arrives(danmu)
    \/ clock_tick

SpecOwner == Init /\ [][NextOwner]_vars

FairnessOwner ==
    /\ WF_vars(start_main_loop \/ loop_tick \/ process_quit_event
               \/ process_events_return \/ process_danmu_list
               \/ check_player_input_timer \/ check_gameover_restart_timer)
    /\ SF_vars(clock_tick)

SpecOwnerFair == SpecOwner /\ FairnessOwner

(***************************************************************************)
(* A Timer on its own, its methods called in any order                     *)
(***************************************************************************)
gameAtRest == <<fieldVars, loopVars>>

\* start(interval)
timer_start(interval) ==
    /\ n_calls < MaxCalls
    /\ timer' = start(timer, interval, ticks)
    /\ n_calls' = n_calls + 1
    /\ fired' = 0
    /\ stopped_early' = FALSE
    /\ UNCHANGED <<danmu_list, lock>>
    /\ UNCHANGED danmujiVars /\ UNCHANGED connVars
    /\ UNCHANGED gameAtRest /\ UNCHANGED clockVars

\* stop()
timer_stop ==
    /\ n_calls < MaxCalls
    /\ timer' = stop(timer)
    /\ n_calls' = n_calls + 1
    /\ stopped_early' = (stopped_early
                         \/ (timer.running /\ countdown_of(timer, ticks) > 0))
    /\ UNCHANGED <<danmu_list, lock, fired>>
    /\ UNCHANGED danmujiVars /\ UNCHANGED connVars
    /\ UNCHANGED gameAtRest /\ UNCHANGED clockVars

\* check(): the event is counted
timer_check ==
    /\ LET r == check(timer, ticks, countdown)
       IN  /\ timer' = r.timer
           /\ countdown' = r.label
           /\ fired' = IF r.event THEN fired + 1 ELSE fired
    /\ UNCHANGED <<danmu_list, lock, n_calls, stopped_early>>
    /\ UNCHANGED danmujiVars /\ UNCHANGED connVars
    /\ UNCHANGED <<player, difficulty, n_rows, n_cols, n_mines, game_status,
                   player_input_timer, gameover_restart_timer, board_call,
                   last_danmu>>
    /\ UNCHANGED loopVars /\ UNCHANGED clockVars

\* pygame.time.get_ticks() grows between two calls
time_passes ==
    /\ n_ticks < MaxTicks
    /\ \E d \in {DELAY_BEFORE_RESTART_MS, ClockStep} : ticks' = ticks + d
    /\ n_ticks' = n_ticks + 1
    /\ UNCHANGED <<danmu_list, lock>>
    /\ UNCHANGED danmujiVars /\ UNCHANGED connVars
    /\ UNCHANGED gameAtRest /\ UNCHANGED timerVars

InitTimerAlone ==
    /\ InitDanmuji
    /\ InitGame(DefaultState)
    /\ \E show \in {None, PlayerLabelInterval} : InitTimer(show)
    /\ fn_pc = "none"
    /\ fn_in = <<>>
    /\ fn_out = <<>>

NextTimer ==
    \/ \E interval \in TimerIntervals : timer_start(interval)
    \/ timer_stop
    \/ timer_check
    \/ time_passes

SpecTimer == InitTimerAlone /\ [][NextTimer]_vars

\* "Must be called continuously in the main loop" (line 90), and time passes
FairnessTimer == WF_vars(timer_check) /\ WF_vars(time_passes)

SpecTimerFair == SpecTimer /\ FairnessTimer

(***************************************************************************)
(* decode_danmu applied to one buffer                                      *)
(***************************************************************************)
NoResult == Returned(<<>>, <<>>, 0)

InitDecode ==
    /\ InitDanmuji
    /\ InitPlay
    /\ fn_pc = "ready"
    /\ fn_in \in DecodeInputs
    /\ fn_out = NoResult

apply_decode ==
    /\ fn_pc = "ready"
    /\ fn_out' = decode_danmu(BufferBytes(fn_in.items, fn_in.tail), 1)
    /\ fn_pc' = "done"
    /\ UNCHANGED <<danmu_list, lock, pushed, since, fn_in>>
    /\ UNCHANGED sessionVars /\ UNCHANGED gameVars /\ UNCHANGED connVars
    /\ UNCHANGED playVars

NextDecode == apply_decode

SpecDecode == InitDecode /\ [][NextDecode]_vars

(***************************************************************************)
(* The classification of one chat text (lines 106-141)                     *)
(***************************************************************************)
Markers ==
    { <<>>, <<Bang>>, <<Bang, Bang>>, <<WideBang>>, <<WideBang, WideBang>>,
      <<Bang, WideBang>>, <<Bang, Bang, Bang>> }
Letters == { <<97>>, <<66>>, <<122>>, <<90>> }                \* a B z Z
Numbers == { <<48>>, <<53>>, <<48, 55>>, <<49, 50>>, <<57, 57>> }  \* 0 5 07 12 99
Suffixes == { <<>>, <<120>>, WordEasy }

CellTexts ==
    {p \o l \o n \o x : p \in Markers, l \in Letters, n \in Numbers, x \in Suffixes}
    \cup {p \o n \o l \o x : p \in Markers, l \in Letters, n \in Numbers,
                             x \in Suffixes}

WordTexts ==
    { WordEasy, WordEASY, WordNormal, WordNORMAL,
      <<69, 97, 115, 121>>,                      \* 'Easy'
      <<78, 111, 114, 109, 97, 108>>,            \* 'Normal'
      <<101, 65, 83, 89>>,                       \* 'eASY'
      WordEasy \o <<120>>,                       \* 'easyx'
      WordEasy \o <<32>> \o TextA5,              \* 'easy A5'
      WordEasy \o TextA5,                       \* 'easyA5'
      WordNORMAL \o <<33>>,                      \* 'NORMAL!'
      <<32>> \o WordEasy,                        \* ' easy'
      <<104, 97, 114, 100>>,                     \* 'hard'
      TextHello, <<>> }

\* every cell reference: a marker prefix, then a letter and a number 0..99
\* (one digit, or two digits with or without a leading zero) in either order
ProperMarkers ==
    { <<>>, <<Bang>>, <<Bang, Bang>>, <<WideBang>>, <<WideBang, WideBang>> }
AllLetters == {<<c>> : c \in (65..90) \cup (97..122)}
AllNumbers ==
    {<<48 + d>> : d \in 0..9} \cup {<<48 + a, 48 + b>> : a \in 0..9, b \in 0..9}
CellRefs ==
    {p \o l \o n : p \in ProperMarkers, l \in AllLetters, n \in AllNumbers}
    \cup {p \o n \o l : p \in ProperMarkers, l \in AllLetters, n \in AllNumbers}

ClassifyInputs == CellTexts \cup WordTexts \cup CellRefs

InitClassify ==
    /\ InitDanmuji
    /\ InitPlay
    /\ fn_pc = "ready"
    /\ fn_in \in ClassifyInputs
    /\ fn_out = <<>>

apply_classify ==
    /\ fn_pc = "ready"
    /\ fn_out' = ClassifyText(JStr(UserU), fn_in)
    /\ fn_pc' = "done"
    /\ UNCHANGED <<danmu_list, lock, pushed, since, fn_in>>
    /\ UNCHANGED sessionVars /\ UNCHANGED gameVars /\ UNCHANGED connVars
    /\ UNCHANGED playVars

NextClassify == apply_classify

SpecClassify == InitClassify /\ [][NextClassify]_vars

(***************************************************************************)
(* The frames startup and send_heartbeat build, for one room id            *)
(***************************************************************************)
RoomIds == UNION {[1..k -> 48..57] : k \in 1..MaxRoomLen}

NoFrames == [join |-> FromHex(<<>>), hb |-> FromHex(<<>>)]

InitFrames ==
    /\ InitDanmuji
    /\ InitPlay
    /\ fn_pc = "ready"
    /\ fn_in \in RoomIds
    /\ fn_out = NoFrames

apply_frames ==
    /\ fn_pc = "ready"
    /\ fn_out' = [join |-> JoinFrame(fn_in), hb |-> HeartbeatFrame]
    /\ fn_pc' = "done"
    /\ UNCHANGED <<danmu_list, lock, pushed, since, fn_in>>
    /\ UNCHANGED sessionVars /\ UNCHANGED gameVars /\ UNCHANGED connVars
    /\ UNCHANGED playVars

NextFrames == apply_frames

SpecFrames == InitFrames /\ [][NextFrames]_vars

(***************************************************************************)
(* Properties                                                              *)
(***************************************************************************)
IsPrefix(a, b) == Len(a) <= Len(b) /\ SubSeq(b, 1, Len(a)) = a

Count(q, x) == Cardinality({i \in 1..Len(q) : q[i] = x})

\* the same elements, each as often, in any order
SameBag(a, b) ==
    /\ Len(a) = Len(b)
    /\ \A i \in 1..Len(a) : Count(a, a[i]) = Count(b, a[i])

LeafOf(f) == [ver |-> f.ver, op |-> f.op, payload |-> f.payload]
LeavesOf(fs) == [i \in 1..Len(fs) |-> LeafOf(fs[i])]

\* frames that are well-formed and not compressed
AllPlain(fs) == \A i \in 1..Len(fs) : ~fs[i].zip /\ fs[i].ver # 2

Done == fn_pc = "done"
OneFrame == fn_in.tail = <<>> /\ Len(fn_in.items) = 1 /\ AllPlain(fn_in.items)

\* every buffer and payload of the model is one ZlibDecompress and
\* JsonLoads cover
EveryInputModelled == Done => ~fn_out.unmodelled

\* C1: Under every interleaving of the appends of decode_danmu and of calls
\* to get_danmu_list, each call returns exactly the commands appended since
\* the previous call, in append order: the results of all calls, concatenated,
\* are the appended commands, none lost and none twice; a call with no append
\* since the previous one returns the empty list.
DrainExactlyOnce ==
    /\ game_pc \in {"idle", "copy"} => delivered \o danmu_list = pushed
    /\ game_pc = "clear" => /\ delivered \o game_copy = pushed
                            /\ danmu_list = game_copy
    /\ game_pc \in {"release", "return"} =>
           delivered \o game_copy \o danmu_list = pushed
    /\ game_pc \in {"clear", "release", "return"} => game_copy = window

\* a call returns the empty list after an earlier call delivered everything
DrainTwiceReached ==
    /\ game_pc = "return" /\ game_copy = <<>>
    /\ delivered # <<>> /\ delivered = pushed

\* C2: Commands are delivered in arrival order: the commands of the frames
\* of a buffer reach the queue, and the results of get_danmu_list, in the
\* order the frames have in the buffer.
DeliveredInArrivalOrder ==
    clean => IsPrefix(pushed, arrived) /\ IsPrefix(delivered, arrived)

\* C3: A failure while decoding one message does not end the receive loop;
\* only a transport fault does.
OnlyTransportEndsReceive == recv_pc = "ended" => recv_end = "transport"

\* C4: For a buffer of valid frames followed by a truncated or corrupt end,
\* the valid leading frames are still processed and their commands appended.
LeadingFramesSurvive ==
    (Done /\ fn_in.tail # <<>> /\ fn_in.items # <<>> /\ AllPlain(fn_in.items)) =>
        /\ \A i \in 1..Len(fn_in.items) :
               Count(fn_out.leaves, LeafOf(fn_in.items[i])) >= 1
        /\ \A i \in 1..Len(ExpectedCmds(fn_in.items)) :
               Count(CmdsOf(fn_out.steps), ExpectedCmds(fn_in.items)[i]) >= 1

\* the frames of a buffer, wrappers and wrapped frames alike; a corrupt end
\* holds at most two
RECURSIVE FrameCount(_)
FrameCount(fs) ==
    SumRange([i \in 1..Len(fs) |->
                IF fs[i].zip THEN 1 + FrameCount(fs[i].inner) ELSE 1], 1, Len(fs))

\* C5: decode_danmu terminates on every buffer: a malformed length field or
\* a buffer too short for a header ends the decoding instead of a further
\* nested call, and the nesting of calls is bounded by the number of frames.
DecodeTerminates ==
    Done => /\ fn_out.exc # "RecursionError"
            /\ fn_out.depth <= FrameCount(fn_in.items)
                               + (IF fn_in.tail = <<>> THEN 0 ELSE 2)

\* C6: For a buffer of N valid uncompressed frames decode_danmu processes
\* exactly N leaf frames, each once and each with its own header fields and
\* payload.
EachFrameOnce ==
    (Done /\ fn_in.tail = <<>> /\ AllPlain(fn_in.items)) =>
        /\ fn_out.exc = ""
        /\ SameBag(fn_out.leaves, LeavesOf(fn_in.items))

\* three different frames in one buffer were processed
ThreeFramesDecoded ==
    /\ Done /\ fn_in.tail = <<>> /\ AllPlain(fn_in.items)
    /\ Len(fn_in.items) = 3
    /\ fn_in.items[1] # fn_in.items[2] /\ fn_in.items[2] # fn_in.items[3]
    /\ fn_in.items[1] # fn_in.items[3]
    /\ Len(fn_out.leaves) = 3

OneWrapper ==
    /\ fn_in.tail = <<>> /\ Len(fn_in.items) = 1 /\ fn_in.items[1].zip
    /\ AllPlain(fn_in.items[1].inner)

\* C7: For a version-2 frame whose payload decompresses to M frames,
\* decode_danmu processes exactly those M frames; the wrapping frame yields
\* no event and no command, whatever its opcode.
WrapperYieldsOnlyInner ==
    (Done /\ OneWrapper) =>
        /\ fn_out.exc = ""
        /\ SameBag(fn_out.leaves, LeavesOf(fn_in.items[1].inner))
        /\ SameBag(CmdsOf(fn_out.steps), ExpectedCmds(fn_in.items[1].inner))

\* a wrapper with the business opcode around two frames with commands
WrapperDecoded ==
    /\ Done /\ OneWrapper
    /\ fn_in.items[1].op = 5
    /\ Len(fn_in.items[1].inner) = 2
    /\ Len(fn_out.leaves) = 2
    /\ Len(CmdsOf(fn_out.steps)) = 2

HasStep(steps, k) == \E i \in 1..Len(steps) : steps[i].k = k

BadPayloadSwallowed ==
    (Done /\ OneFrame /\ fn_in.items[1].op = 5
          /\ fn_in.items[1].payload \in BadPayloads) =>
        /\ fn_out.exc = ""
        /\ ~HasStep(fn_out.steps, "append")
        /\ ~HasStep(fn_out.steps, "acquire")

\* the handler of the try block ran on a payload without its user name
MissingKeySwallowed ==
    /\ Done /\ OneFrame
    /\ fn_in.items[1].ver = 0 /\ fn_in.items[1].op = 5
    /\ fn_in.items[1].payload =
           PayloadOf(JObj(<<Member(KeyCmd, JStr(CmdGuardBuy)),
                            Member(KeyData, JObj(<<Member(KeyUname, JStr(UserU))>>))>>))
    /\ HasStep(fn_out.steps, "except")

\* C10: A chat text that is not a cell reference yields a difficulty command
\* exactly when the whole text is 'easy' or 'normal' in any letter case, and
\* the level is the uppercased word.
DifficultyWholeWordAnyCase ==
    (Done /\ ~MatchLetterDigits(fn_in).ok /\ ~MatchDigitsLetter(fn_in).ok) =>
        CmdsOf(fn_out) =
            IF UpperText(fn_in) \in {WordEASY, WordNORMAL}
            THEN <<<<JStr(UserU), "difficulty", UpperText(fn_in)>>>>
            ELSE <<>>

\* A cell reference read off the text itself: a letter and one or two ASCII
\* digits, in either order.
LetterFirst(r) ==
    /\ Len(r) \in 2..3 /\ IsLetter(r[1])
    /\ \A i \in 2..Len(r) : IsAsciiDigit(r[i])
DigitsFirst(r) ==
    /\ Len(r) \in 2..3 /\ IsLetter(r[Len(r)])
    /\ \A i \in 1..(Len(r) - 1) : IsAsciiDigit(r[i])
IsCellRef(r) == LetterFirst(r) \/ DigitsFirst(r)
RefLetter(r) == IF LetterFirst(r) THEN r[1] ELSE r[Len(r)]
RefDigits(r) ==
    IF LetterFirst(r) THEN SubSeq(r, 2, Len(r)) ELSE SubSeq(r, 1, Len(r) - 1)
\* the zero-based index of the letter in the alphabet, the value of the number
RefCol(r) == IF RefLetter(r) >= 97 THEN RefLetter(r) - 97 ELSE RefLetter(r) - 65
RefRow(r) ==
    LET ds == RefDigits(r)
    IN  IF Len(ds) = 1 THEN ds[1] - 48 ELSE (ds[1] - 48) * 10 + (ds[2] - 48)
\* the same reference with its two tokens in the other order
Swapped(r) ==
    IF LetterFirst(r) THEN RefDigits(r) \o <<RefLetter(r)>>
    ELSE <<RefLetter(r)>> \o RefDigits(r)

AfterMarker(text, p) == SubSeq(text, Len(p) + 1, Len(text))
\* text is the marker prefix p followed by a cell reference and nothing else
MarkedRef(text, p) == StartsWith(text, p) /\ IsCellRef(AfterMarker(text, p))
KindOfCount(n) == IF n = 0 THEN "open" ELSE IF n = 1 THEN "check" ELSE "uncheck"

\* C11: For a chat text made of a marker prefix and a cell reference, no
\* marker yields 'open', one marker ('!' or the full-width form) yields
\* 'check' and two markers yield 'uncheck'; the ASCII and the full-width
\* forms yield the same kind.
MarkersCounted ==
    Done => \A p \in ProperMarkers :
        MarkedRef(fn_in, p) =>
            /\ Len(CmdsOf(fn_out)) = 1
            /\ CmdsOf(fn_out)[1][2] = KindOfCount(Len(p))

\* two full-width markers before a cell reference yielded 'uncheck'
WideMarkersCounted ==
    /\ Done /\ fn_in = <<WideBang, WideBang, 65, 53>>
    /\ CmdsOf(fn_out) = <<<<JStr(UserU), "uncheck", <<0, 5>>>>>>

\* C12: Decoding a cell reference does not depend on the order of its tokens
\* nor on the letter's case: for every letter L, number R in 0..99 and marker
\* prefix p, the texts p+L+R and p+R+L yield the same command, at column =
\* index of L in the alphabet and row = R.
CellRefOrderAndCase ==
    Done => \A p \in ProperMarkers :
        MarkedRef(fn_in, p) =>
            LET r == AfterMarker(fn_in, p)
            IN  /\ CmdsOf(fn_out) =
                       <<<<JStr(UserU), KindOfCount(Len(p)), <<RefCol(r), RefRow(r)>>>>>>
                /\ CmdsOf(fn_out) =
                       CmdsOf(ClassifyText(JStr(UserU), p \o Swapped(r)))

\* '!12Z', number first and an upper-case letter, yielded 'check' at (25, 12)
DigitsFirstUpperCase ==
    /\ Done /\ fn_in = <<Bang, 49, 50, 90>>
    /\ CmdsOf(fn_out) = <<<<JStr(UserU), "check", <<25, 12>>>>>>

\* the users and gift names of the SEND_GIFT events of the model
GiftUsers == {UserU, UserV}
GiftNames == {TrackedGift, GiftOther, GiftPrefix, GiftLonger, <<>>}

\* a single frame that reaches the parse of its JSON payload (line 78)
Dispatched == OneFrame /\ fn_in.items[1].op = 5 /\ fn_in.items[1].ver # 1

\* C13: A SEND_GIFT event yields a 'gift' command for data.uname exactly
\* when data.giftName is the tracked gift name, and no command for any other
\* gift name; a GUARD_BUY event always yields a 'gift' command for
\* data.username.
GiftsClassified ==
    (Done /\ Dispatched) =>
        \A u \in GiftUsers :
            /\ \A g \in GiftNames :
                   fn_in.items[1].payload = PayloadOf(SendGift(u, g)) =>
                       CmdsOf(fn_out.steps) =
                           IF g = TrackedGift THEN <<<<JStr(u), "gift", <<>>>>>>
                           ELSE <<>>
            /\ fn_in.items[1].payload = PayloadOf(GuardBuy(u)) =>
                   CmdsOf(fn_out.steps) = <<<<JStr(u), "gift", <<>>>>>>

\* a gift whose name only starts like the tracked name yielded no command
OtherGiftIgnored ==
    /\ Done /\ Dispatched
    /\ fn_in.items[1].payload = PayloadOf(SendGift(UserU, GiftLonger))
    /\ HasStep(fn_out.steps, "print")
    /\ CmdsOf(fn_out.steps) = <<>>

\* the positions of the steps of kind k
StepsAt(steps, k) == {i \in 1..Len(steps) : steps[i].k = k}

\* C18: Each decoded leaf frame appends at most one command: between two
\* appends lies the json.loads of a further frame, and a chat text with a
\* cell reference followed by 'easy' yields the cell command alone.
AtMostOneCommandPerLeaf ==
    Done =>
        /\ \A i \in StepsAt(fn_out.steps, "append") :
             \A j \in StepsAt(fn_out.steps, "append") :
               i < j => \E k \in StepsAt(fn_out.steps, "json") : i < k /\ k < j
        /\ StepsAt(fn_out.steps, "append") # {} =>
               \E k \in StepsAt(fn_out.steps, "json") :
                   \A i \in StepsAt(fn_out.steps, "append") : k < i
        /\ (Dispatched /\ fn_in.items[1].payload = EvOpenEasy.payload) =>
               CmdsOf(fn_out.steps) = EvOpenEasy.cmds

\* the chat text 'A5easy' yielded one command, the cell command
CellBeforeDifficulty ==
    /\ Done /\ Dispatched
    /\ fn_in.items[1].payload = PayloadOf(DanmuMsg(UserV, TextA5Easy))
    /\ CmdsOf(fn_out.steps) = <<<<JStr(UserV), "open", <<0, 5>>>>>>

\* C14: When a receive or send call sees an unrecoverable transport error,
\* both loops stop: once the receive loop has ended on a transport fault no
\* further call is made on the transport, and the session is never
\* restarted.
BothLoopsStopOnFault ==
    [][/\ recv_end = "transport" => wire' = wire
       /\ start_pc = "closed" => start_pc' = "closed"
       /\ start_pc = "waiting" => start_pc' \in {"waiting", "closed"}
       /\ recv_pc = "ended" => recv_pc' = "ended"
       /\ hb_pc = "ended" => hb_pc' = "ended"]_vars

IsSend(e, frame) == e = Sent(frame)
JoinCount == Cardinality({i \in 1..Len(wire) : IsSend(wire[i], JoinFrame(RoomId).bytes)})

\* C15: In every run of startup the join frame is sent once, right after
\* the transport is opened and before any heartbeat is sent or any message
\* received; the loops are started by the send's return, not by a message
\* of the server.
JoinFirst ==
    /\ JoinCount <= 1
    /\ wire # <<>> => wire[1] = Opened
    /\ Len(wire) >= 2 => IsSend(wire[2], JoinFrame(RoomId).bytes)
    /\ \A i \in 1..Len(wire) : i # 1 => wire[i] # Opened
    /\ (recv_pc # "off" \/ hb_pc # "off") => JoinCount = 1
    /\ start_pc = "joined" => (n_recv = 0 /\ n_hb = 0 /\ Len(wire) = 2)
    /\ (start_pc = "waiting" /\ n_recv = 0 /\ n_hb = 0) => Len(wire) = 2

\* a heartbeat followed the join frame before any message was received
HeartbeatBeforeAnyMessage ==
    /\ Len(wire) = 3
    /\ wire[2] = Sent(JoinFrame(RoomId).bytes)
    /\ wire[3] = Sent(HeartbeatFrame.bytes)
    /\ n_recv = 0

\* C16: While the session is active a heartbeat frame is sent after every
\* 30 time units, whatever the receive loop does: the k-th heartbeat is sent
\* at time 30 * k however many messages were received, and a sleeping
\* heartbeat loop always comes to its next send.
HeartbeatsKeepComing ==
    /\ [](Len(hb_at) = n_hb)
    /\ [](\A k \in 1..Len(hb_at) : hb_at[k] = k * HeartbeatInterval)
    /\ \A k \in 0..(MaxHeartbeats - 1) :
           (hb_pc = "sleep" /\ n_hb = k) ~> (n_hb = k + 1 \/ hb_pc = "ended")

\* every heartbeat of the run was sent and no message ever arrived
HeartbeatsWithoutMessages ==
    /\ n_hb = MaxHeartbeats /\ n_hb >= 2
    /\ hb_pc = "sleep" /\ recv_pc = "receive" /\ n_recv = 0
    /\ now = MaxHeartbeats * HeartbeatInterval

JoinText(room_id) ==
    <<123, 34, 114, 111, 111, 109, 105, 100, 34, 58>> \o room_id \o <<125>>

\* C17: For every room id of ASCII digits the join frame has a length field
\* of 16 plus the length of its payload, header length 16, version 1, the
\* join opcode 7 and the payload {"roomid":<room id>}; the heartbeat frame
\* is 16 bytes with length field 16 and no payload.
JoinFrameLayout ==
    Done =>
        LET b == fn_out.join.bytes
            h == fn_out.hb.bytes
        IN  /\ fn_out.join.ok
            /\ HexInt(Slice(b, 0, 4)).v = 16 + Len(From(b, 16))
            /\ HexInt(Slice(b, 0, 4)).v = Len(b)
            /\ HexInt(Slice(b, 4, 6)).v = 16
            /\ HexInt(Slice(b, 6, 8)).v = 1
            /\ HexInt(Slice(b, 8, 12)).v = 7
            /\ From(b, 16) = Utf8Encode(JoinText(fn_in))
            /\ fn_out.hb.ok
            /\ Len(h) = 16
            /\ HexInt(Slice(h, 0, 4)).v = 16
            /\ HexInt(Slice(h, 4, 6)).v = 16
            /\ HexInt(Slice(h, 8, 12)).v = 2
            /\ From(h, 16) = <<>>

\* the join frame of room '907'
JoinFrameBuilt ==
    /\ Done /\ fn_in = <<57, 48, 55>>
    /\ fn_out.join.bytes =
           <<0, 0, 0, 30, 0, 16, 0, 1, 0, 0, 0, 7, 0, 0, 0, 1, 123, 34, 114, 111,
             111, 109, 105, 100, 34, 58, 57, 48, 55, 125>>

\* C19: Every read or write of danmu_list happens while the lock is held;
\* the producer holds the lock for the append alone and the consumer for
\* copy and clear alone: no console output, no JSON parsing and no call on
\* the transport happens in a thread that holds the lock.
LockAroundListAccessOnly ==
    /\ NextStepIs("append") => lock = "session"
    /\ game_pc \in {"copy", "clear"} => lock = "game"
    /\ lock = "game" => game_pc \in {"copy", "clear", "release"}
    /\ lock = "session" =>
           /\ recv_pc = "decode" /\ recv_todo # <<>>
           /\ Head(recv_todo).k \in {"append", "release"}

\* C20: No lock leak and no deadlock: when decode_danmu has returned or
\* raised, and when get_danmu_list has returned, the thread does not hold the
\* lock; a call of get_danmu_list always acquires the lock and returns,
\* whatever the session decodes and without waiting for a command.
LockAlwaysReleased ==
    /\ [](recv_pc # "decode" => lock # "session")
    /\ []((recv_pc = "decode" /\ recv_todo = <<>>) => lock # "session")
    /\ [](game_pc \in {"idle", "return"} => lock # "game")
    /\ (game_pc = "idle") ~> (game_pc = "return")
    /\ (lock = "session") ~> (lock # "session")

\* get_danmu_list returned the empty list after decode_danmu had appended a
\* command under the lock and then raised
ReturnedAfterRaise ==
    /\ recv_pc = "ended" /\ recv_end \notin {"", "transport"}
    /\ pushed # <<>> /\ delivered = pushed
    /\ game_pc = "return" /\ game_copy = <<>>
    /\ lock = "free"

(***************************************************************************)
(* Properties of the game loop                                             *)
(***************************************************************************)
\* the step is a pass of the for loop of process_danmu_list
ProcessStep == loop_pc = "danmu" /\ danmu_todo # <<>> /\ danmu_todo' = Tail(danmu_todo)

\* the command the pass is about
Danmu == Head(danmu_todo)

\* the step changes none of difficulty, n_rows, n_cols, n_mines
SameDifficulty ==
    /\ difficulty' = difficulty
    /\ n_rows' = n_rows
    /\ n_cols' = n_cols
    /\ n_mines' = n_mines

\* C21: Player exclusivity: while player is a user, a command drained from
\* any other user changes nothing: not player, not the difficulty, neither
\* timer, and no method of the board is called; so a gift of another user
\* never replaces the player.  player changes from 'all' to a user through a
\* gift of that user only, and from a user back to 'all' only.
OthersAreIgnored ==
    [][ /\ (ProcessStep /\ player # PlayerAll /\ Danmu[1] # player) =>
               /\ player' = player
               /\ SameDifficulty
               /\ game_status' = game_status
               /\ player_input_timer' = player_input_timer
               /\ gameover_restart_timer' = gameover_restart_timer
               /\ board_call' = NoCall
        /\ (player = PlayerAll /\ player' # PlayerAll) =>
               /\ ProcessStep
               /\ Danmu[2] = "gift"
               /\ player' = Danmu[1]
        /\ (player # PlayerAll /\ player' # player) => player' = PlayerAll
      ]_vars

\* u is the player and the gift of v was the last command of a pass: u is
\* still the player, with the countdown of u's own gift
GiftOfAnotherIgnored ==
    /\ loop_pc = "danmu"
    /\ last_danmu = GiftV
    /\ player = JStr(UserU)
    /\ player_input_timer.running
    /\ player_input_timer.start_time < ticks

\* the time at which player_input_timer is due
Deadline == player_input_timer.start_time + player_input_timer.interval

\* the step ends the game
GameEnds == game_status' # game_status /\ game_status' \in {"game_over", "victory"}

\* the step is the check of player_input_timer, with its interval elapsed
PlayerTimeout ==
    loop_pc = "player_timer" /\ loop_pc' = "restart_timer" /\ ticks >= Deadline

CellKinds == {"open", "check", "uncheck"}

\* the deadlines the clock of the model reaches
Deadlines ==
    {d \in {k * ClockStep + PLAYER_INPUT_INTERVAL_MS : k \in 0..MaxTicks} :
        d <= MaxTicks * ClockStep}

\* C22: Player ownership always ends.  While a user is the player,
\* player_input_timer runs with 60000 ms, started by the gift; player
\* returns to 'all' in the step that ends the game (game over or victory)
\* and in the first check of the timer 60000 ms or more after its start, and
\* in no other step; a cell command of the player restarts the countdown at
\* the time of the command, a gift or a difficulty command of the player
\* leaves the timer as it is, and nothing else touches it.  While the main
\* loop runs, a player whose deadline the clock reaches is replaced by
\* 'all' unless a cell command of that player moves the deadline.
OwnershipEnds ==
    /\ [](player # PlayerAll =>
             /\ player_input_timer.running
             /\ player_input_timer.interval = PLAYER_INPUT_INTERVAL_MS)
    /\ [][ /\ (player = PlayerAll /\ player' # PlayerAll) =>
                  player_input_timer'.start_time = ticks
           /\ GameEnds => player' = PlayerAll
           /\ (PlayerTimeout /\ player # PlayerAll) => player' = PlayerAll
           /\ (player # PlayerAll /\ player' = PlayerAll) =>
                  GameEnds \/ PlayerTimeout
           /\ (ProcessStep /\ player # PlayerAll /\ Danmu[1] = player
                   /\ player' = player) =>
                  IF Danmu[2] \in CellKinds
                  THEN player_input_timer'.start_time = ticks
                  ELSE player_input_timer' = player_input_timer
           /\ (player # PlayerAll /\ player' = player
                   /\ player_input_timer' # player_input_timer) =>
                  ProcessStep /\ Danmu[1] = player /\ Danmu[2] \in CellKinds
         ]_vars
    /\ \A d \in Deadlines :
           (player # PlayerAll /\ Deadline = d)
               ~> (player = PlayerAll \/ loop_pc = "stopped" \/ Deadline # d)

\* the player's cell command restarted the countdown at 30000 ms, and the
\* check at 90000 ms has made player 'all' again in a game that goes on
OwnershipTimedOut ==
    /\ loop_pc = "restart_timer"
    /\ player = PlayerAll
    /\ player_input_timer.start_time = ClockStep
    /\ ~player_input_timer.running
    /\ ticks = ClockStep + PLAYER_INPUT_INTERVAL_MS
    /\ game_status = "running"
    /\ gameover_restart_timer.start_time = None

(***************************************************************************)
(* Properties of Timer                                                     *)
(***************************************************************************)
\* the step is a call of check(): no start(), no stop(), no passing of time
CheckStep == n_calls' = n_calls /\ n_ticks' = n_ticks

\* the interval of the last start() has elapsed
Elapsed == countdown_of(timer, ticks) <= 0

\* C23: Timer fires at most once per start.  After start(interval) the event
\* is called at most once, by the first check() at which the interval has
\* elapsed, and that check() leaves the timer not running; a check() of a
\* timer that is not running (never started, stopped, or fired) changes
\* nothing; after a stop() before the interval has elapsed the event is not
\* called until the next start().  With check() called again and again and
\* no further start() or stop(), the event of a running timer is called.
FiresOncePerStart ==
    /\ [](fired <= 1)
    /\ [](timer.running => fired = 0)
    /\ [](stopped_early => fired = 0 /\ ~timer.running)
    /\ [](timer.start_time = None => ~timer.running)
    /\ [][ /\ (CheckStep /\ ~timer.running) =>
                  UNCHANGED <<timer, countdown, fired>>
           /\ (CheckStep /\ timer.running /\ ~Elapsed) =>
                  timer' = timer /\ fired' = fired
           /\ (CheckStep /\ timer.running /\ Elapsed) =>
                  fired' = 1 /\ ~timer'.running
           /\ fired' > fired => CheckStep /\ timer.running /\ Elapsed
         ]_vars
    /\ (timer.running /\ n_calls = MaxCalls
          /\ countdown_of(timer, ticks)
                 <= (MaxTicks - n_ticks) * DELAY_BEFORE_RESTART_MS)
           ~> (fired = 1)

\* the timer was started with 60000 ms, its event was called once, and the
\* clock has gone on past the interval since
FiredOnceThenIdle ==
    /\ fired = 1
    /\ ~timer.running
    /\ timer.interval = PLAYER_INPUT_INTERVAL_MS
    /\ countdown_of(timer, ticks) < 0
    /\ countdown = <<>>

(***************************************************************************)
(* Properties of the difficulty                                            *)
(***************************************************************************)
\* n_rows, n_cols, n_mines of a difficulty (lines 317-324)
LevelOf(d) == IF d = WordEASY THEN <<10, 10, 10>> ELSE <<16, 16, 40>>

\* the sender of the command of this pass may act and the game is not running
MayChangeDifficulty ==
    /\ player = PlayerAll \/ player = Danmu[1]
    /\ game_status # "running"

\* C24: Difficulty is frozen during play.  A difficulty command sets
\* difficulty, n_rows, n_cols and n_mines and resets the board with them
\* when the sender may act (player is 'all' or the sender) and the status of
\* the board is not 'running'; otherwise it changes none of them, nor the
\* board.  No other step of the game changes the four values.
DifficultyFrozen ==
    [][ /\ (ProcessStep /\ Danmu[2] = "difficulty") =>
               IF MayChangeDifficulty
               THEN /\ difficulty' = Danmu[3]
                    /\ <<n_rows', n_cols', n_mines'>> = LevelOf(Danmu[3])
                    /\ board_call' = BoardCall("reset", LevelOf(Danmu[3]))
                    /\ game_status' = "before_start"
               ELSE /\ SameDifficulty
                    /\ board_call' = NoCall
                    /\ game_status' = game_status
        /\ ~SameDifficulty =>
               ProcessStep /\ Danmu[2] = "difficulty" /\ MayChangeDifficulty
      ]_vars

\* anyone may play, the game is running and u's 'normal' was the last
\* command of a pass: the game is still an easy one, and running
DifficultyRefusedWhileRunning ==
    /\ loop_pc = "danmu"
    /\ last_danmu = NormalU
    /\ player = PlayerAll
    /\ game_status = "running"
    /\ difficulty = WordEASY
    /\ n_rows = 10
    /\ board_call = NoCall
====
